---- MODULE Spec2Model ----
(***************************************************************************)
(* Vectorized card tables of pyNastran's bdf_vectorized3: staging of raw   *)
(* tuples (add / add_card), commit into columnar arrays (parse_cards /     *)
(* _save), sort, slice, reduction of aggregate cards (SPCADD, LOAD) and    *)
(* write_file.  Arrays are sequences (1-based); a record stands for one    *)
(* card table object, its fields named as the attributes in the source.   *)
(* Real-valued fields are drawn from small sets of integers.               *)
(***************************************************************************)
EXTENDS Integers, Sequences, FiniteSets, TLC

VARIABLES
    model,    \* the BDF model: one record per card table
    kind,     \* the card table exercised in this behaviour
    raised,   \* the exception raised by the last call ("" when it returned)
    hist,     \* ghost: every card staged so far, in call order
    phase,    \* "staging" | "parsed" (last call was a completed parse_cards) | ...
    nparse,   \* number of parse_cards calls that committed a batch
    result    \* what the last slice / reduction / write returned

vars == <<model, kind, raised, hist, phase, nparse, result>>

\* ------------------------------------------------------------------ bounds
MaxId == 2
MaxCards == 2
MaxBatches == 2

Ids == 1..MaxId
NoResult == [tag |-> "none"]

\* ------------------------------------------------------------- numpy helpers
RECURSIVE SumSeq(_)
SumSeq(s) == IF s = <<>> THEN 0 ELSE Head(s) + SumSeq(Tail(s))

RECURSIVE Flatten(_)
Flatten(ss) == IF ss = <<>> THEN <<>> ELSE Head(ss) \o Flatten(Tail(ss))

Min(a, b) == IF a <= b THEN a ELSE b

Column(cards, k) == [c \in 1..Len(cards) |-> cards[c][k]]

Repeat(x, k) == [c \in 1..k |-> x]

SeqsUpTo(S, lo, hi) == UNION {[1..k -> S] : k \in lo..hi}

\* a[i] with an integer index array i (1-based here); IndexError when out of range
IndexOK(a, i) == \A k \in 1..Len(i) : i[k] \in 1..Len(a)
Take(a, i) == [k \in 1..Len(i) |-> a[i[k]]]

Max0(x) == IF x < 0 THEN 0 ELSE x

\* a[lo:hi] with 0-based half-open bounds, clipped like a Python slice
PySlice(a, lo, hi) ==
    LET h == IF hi > Len(a) THEN Len(a) ELSE hi
    IN IF lo >= h THEN <<>> ELSE SubSeq(a, lo + 1, h)

StrictlyIncreasing(a) == \A k \in 1..(Len(a) - 1) : a[k] < a[k + 1]

\* the index arrays np.argsort(a) may return: any permutation ordering a
IsArgsort(a, i) ==
    /\ Len(i) = Len(a)
    /\ {i[k] : k \in 1..Len(i)} = 1..Len(a)
    /\ \A k \in 1..(Len(i) - 1) : a[i[k]] <= a[i[k + 1]]
\* built by picking, among the rows not yet placed, any row holding the least
\* value
RECURSIVE ArgsortsOf(_, _)
ArgsortsOf(a, rows) ==
    IF rows = {} THEN {<<>>}
    ELSE UNION {{<<k>> \o i : i \in ArgsortsOf(a, rows \ {k})} :
                   k \in {x \in rows : \A y \in rows : a[x] <= a[y]}}
Argsorts(a) == ArgsortsOf(a, 1..Len(a))

\* sorted unique values of a (np.unique)
RECURSIVE SetToSortedSeq(_)
SetToSortedSeq(S) ==
    IF S = {} THEN <<>>
    ELSE LET m == CHOOSE x \in S : \A y \in S : x <= y
         IN <<m>> \o SetToSortedSeq(S \ {m})
Range(a) == {a[k] : k \in 1..Len(a)}
Unique(a) == SetToSortedSeq(Range(a))

\* ------------------------------------------------- base_card (not in src/)
\* VectorizedBaseCard.parse_cards_check: parse_cards is skipped for a table
\* with n == 0 or with nothing staged (Load2.parse_cards spells the same
\* test out inline).
ParseSkipped(t) == t.n = 0 \/ Len(t.cards) = 0

\* make_idim(n, counts): row k spans (sum counts[<k], sum counts[<=k]), 0-based.
make_idim(n, counts) ==
    [k \in 1..n |-> <<SumSeq(SubSeq(counts, 1, k - 1)), SumSeq(SubSeq(counts, 1, k))>>]

\* make_idim fills an (n, 2) array from the cumulative counts: numpy raises
\* ValueError when there are not n counts
make_idim_ok(n, counts) == n = Len(counts)

\* hslice_by_idim(i, idim, a): the rows' slices of the flat array, row by row
hslice_by_idim(i, idim, a) ==
    Flatten([k \in 1..Len(i) |-> PySlice(a, idim[i[k]][1], idim[i[k]][2])])

\* ------------------------------------------------------- Load0: FORCE/MOMENT
NewLoad0 ==
    [n |-> 0, cards |-> <<>>, load_id |-> <<>>, node_id |-> <<>>,
     coord_id |-> <<>>, mag |-> <<>>, xyz |-> <<>>]

\* Load0.add: stage (sid, node, cid, mag, xyz)
Load0_add(t, sid, node, mag, xyz, cid) ==
    [t EXCEPT !.cards = Append(@, <<sid, node, cid, mag, xyz>>), !.n = @ + 1]

Load0_save(t, load_id, node_id, coord_id, mag, xyz) ==
    LET stack == Len(t.load_id) = 0
        load_id2 == IF stack THEN t.load_id \o load_id ELSE load_id
        node_id2 == IF stack THEN t.node_id \o node_id ELSE node_id
        coord_id2 == IF stack THEN t.coord_id \o coord_id ELSE coord_id
        mag2 == IF stack THEN t.mag \o mag ELSE mag
        xyz2 == IF stack THEN t.xyz \o xyz ELSE xyz
    IN [t EXCEPT !.load_id = load_id2, !.node_id = node_id2,
                 !.coord_id = coord_id2, !.mag = mag2, !.xyz = xyz2,
                 !.n = Len(load_id2)]

\* Load0.parse_cards; the result is [t |-> table after the call, err |-> exception]
Load0_parse_cards(t) ==
    IF ParseSkipped(t) THEN [t |-> t, err |-> ""]
    ELSE LET load_id == Column(t.cards, 1)
             saved == Load0_save(t, load_id, Column(t.cards, 2), Column(t.cards, 3),
                                 Column(t.cards, 4), Column(t.cards, 5))
         IN IF Len(load_id) # saved.n
            THEN [t |-> saved, err |-> "AssertionError"]
            ELSE [t |-> [saved EXCEPT !.cards = <<>>], err |-> ""]

\* FORCE.__apply_slice__ / slice_card_by_index
FORCE_apply_slice(t, load, i) ==
    [load EXCEPT !.n = Len(i), !.load_id = Take(t.load_id, i),
                 !.node_id = Take(t.node_id, i), !.coord_id = Take(t.coord_id, i),
                 !.mag = Take(t.mag, i), !.xyz = Take(t.xyz, i)]
FORCE_slice_card_by_index(t, i) == FORCE_apply_slice(t, NewLoad0, i)

\* ---------------------------------------------------------------------- SPC
\* SPC.__init__ creates spc_id only; the other columns appear with _save
NewSPC ==
    [n |-> 0, cards |-> <<>>, spc_id |-> <<>>, node_id |-> <<>>,
     components |-> <<>>, enforced |-> <<>>]

\* SPC.add with an integer spc_id, lists of nodes and components, a float enforced
SPC_add(t, spc_id, nodes, components, enforced) ==
    LET nnodes == Len(nodes)
    IN [t EXCEPT !.cards = Append(@, <<Repeat(spc_id, nnodes), nodes, components,
                                        Repeat(enforced, nnodes)>>),
                 !.n = @ + 1]

SPC_save(t, spc_id, node_id, components, enforced) ==
    [t EXCEPT !.spc_id = spc_id, !.node_id = node_id, !.components = components,
              !.enforced = enforced, !.n = Len(spc_id)]

SPC_parse_cards(t) ==
    IF ParseSkipped(t) THEN [t |-> t, err |-> ""]
    ELSE LET saved == SPC_save(t, Flatten(Column(t.cards, 1)), Flatten(Column(t.cards, 2)),
                               Flatten(Column(t.cards, 3)), Flatten(Column(t.cards, 4)))
         IN IF \/ Len(saved.spc_id) # Len(saved.node_id)
               \/ Len(saved.spc_id) # Len(saved.components)
               \/ Len(saved.spc_id) # Len(saved.enforced)
            THEN [t |-> saved, err |-> "AssertionError"]
            ELSE [t |-> [saved EXCEPT !.cards = <<>>], err |-> ""]

SPC_apply_slice(t, spc, i) ==
    [spc EXCEPT !.n = Len(i), !.spc_id = Take(t.spc_id, i), !.node_id = Take(t.node_id, i),
                !.components = Take(t.components, i), !.enforced = Take(t.enforced, i)]
SPC_slice_card_by_index(t, i) == SPC_apply_slice(t, NewSPC, i)

\* --------------------------------------------------------------------- LOAD
\* LOAD.__init__ (scale is created by the first _save)
NewLOAD ==
    [n |-> 0, cards |-> <<>>, load_id |-> <<>>, scale |-> <<>>, nloads |-> <<>>,
     load_ids |-> <<>>, scale_factors |-> <<>>]

\* LOAD.add: stage (sid, scale, scale_factors, load_ids)
LOAD_add(t, sid, scale, scale_factors, load_ids) ==
    [t EXCEPT !.cards = Append(@, <<sid, scale, scale_factors, load_ids>>), !.n = @ + 1]

LOAD_save(t, load_id, scale, nloads, load_ids, scale_factors) ==
    LET stack == Len(t.load_id) # 0
    IN [t EXCEPT !.load_id = IF stack THEN t.load_id \o load_id ELSE load_id,
                 !.scale = IF stack THEN t.scale \o scale ELSE scale,
                 !.nloads = IF stack THEN t.nloads \o nloads ELSE nloads,
                 !.load_ids = IF stack THEN t.load_ids \o load_ids ELSE load_ids,
                 !.scale_factors = IF stack THEN t.scale_factors \o scale_factors
                                   ELSE scale_factors]

LOAD_parse_cards(t) ==
    IF ParseSkipped(t) THEN [t |-> t, err |-> ""]
    ELSE LET nloads == [c \in 1..Len(t.cards) |-> Len(t.cards[c][3])]
             saved == LOAD_save(t, Column(t.cards, 1), Column(t.cards, 2), nloads,
                                Flatten(Column(t.cards, 4)), Flatten(Column(t.cards, 3)))
         IN [t |-> [saved EXCEPT !.cards = <<>>], err |-> ""]

\* LOAD.iload
LOAD_iload(t) == make_idim(t.n, t.nloads)

LOAD_apply_slice(t, load, i) ==
    [load EXCEPT !.n = Len(i), !.load_id = Take(t.load_id, i), !.scale = Take(t.scale, i),
                 !.load_ids = hslice_by_idim(i, LOAD_iload(t), t.load_ids),
                 !.scale_factors = hslice_by_idim(i, LOAD_iload(t), t.scale_factors),
                 !.nloads = Take(t.nloads, i)]
LOAD_slice_card_by_index(t, i) == LOAD_apply_slice(t, NewLOAD, i)

\* VectorizedBaseCard.sort: nothing to do when the ids are already strictly
\* increasing; otherwise the table is sliced in place by an argsort of its ids
\* (SET1.sort spells the same steps out).  sliced[i] is what the table's
\* __apply_slice__(self, i) leaves: the table sliced in place, or an IndexError
\* when a column cannot be indexed by i; the result is the set of outcomes, one
\* per index array argsort may return.
BaseSort(t, ids, sliced) ==
    IF StrictlyIncreasing(ids) THEN {[t |-> t, err |-> ""]}
    ELSE {sliced[i] : i \in Argsorts(ids)}

\* ------------------------------------------------------------------- DEFORM
NewDEFORM ==
    [n |-> 0, cards |-> <<>>, load_id |-> <<>>, elements |-> <<>>, enforced |-> <<>>]

DEFORM_add(t, sid, eid, deformation) ==
    [t EXCEPT !.cards = Append(@, <<sid, eid, deformation>>), !.n = @ + 1]

DEFORM_save(t, load_id, elements, enforced) ==
    [t EXCEPT !.load_id = load_id, !.elements = elements, !.enforced = enforced]

DEFORM_apply_slice(t, load, i) ==
    [load EXCEPT !.n = Len(i), !.load_id = Take(t.load_id, i),
                 !.elements = Take(t.elements, i), !.enforced = Take(t.enforced, i)]
DEFORM_slice_ok(t, i) ==
    IndexOK(t.load_id, i) /\ IndexOK(t.elements, i) /\ IndexOK(t.enforced, i)

\* DEFORM.parse_cards: _save, sort, clear the staging list
DEFORM_parse_cards(t) ==
    IF ParseSkipped(t) THEN {[t |-> t, err |-> ""]}
    ELSE LET saved == DEFORM_save(t, Column(t.cards, 1), Column(t.cards, 2),
                                  Column(t.cards, 3))
         IN {IF r.err = "" THEN [t |-> [r.t EXCEPT !.cards = <<>>], err |-> ""] ELSE r :
                r \in BaseSort(saved, saved.load_id,
                    [i \in Argsorts(saved.load_id) |->
                        IF DEFORM_slice_ok(saved, i) THEN [t |-> DEFORM_apply_slice(saved, saved, i), err |-> ""]
                        ELSE [t |-> saved, err |-> "IndexError"]])}

\* ---------------------------------------------------------------------- MPC
NewMPC ==
    [n |-> 0, cards |-> <<>>, mpc_id |-> <<>>, idim |-> <<>>, node_id |-> <<>>,
     components |-> <<>>, coefficients |-> <<>>]

MPC_add(t, mpc_id, nodes, components, coefficients) ==
    [t EXCEPT !.cards = Append(@, <<mpc_id, nodes, components, coefficients>>),
              !.n = @ + 1]

\* MPC.parse_cards assigns the arrays of the staged cards to the table
MPC_parse_cards(t) ==
    IF ParseSkipped(t) THEN [t |-> t, err |-> ""]
    ELSE [t |-> [t EXCEPT !.mpc_id = Column(t.cards, 1),
                          !.idim = make_idim(Len(t.cards),
                                             [c \in 1..Len(t.cards) |-> Len(t.cards[c][2])]),
                          !.node_id = Flatten(Column(t.cards, 2)),
                          !.components = Flatten(Column(t.cards, 3)),
                          !.coefficients = Flatten(Column(t.cards, 4)),
                          !.cards = <<>>],
          err |-> ""]

\* --------------------------------------------------------------------- MAT1
MAT1Columns ==
    {"material_id", "E", "G", "nu", "rho", "alpha", "tref", "ge", "Ss", "St", "Sc", "mcsid"}

NewMAT1 ==
    [n |-> 0, cards |-> <<>>, material_id |-> <<>>, E |-> <<>>, G |-> <<>>, nu |-> <<>>,
     rho |-> <<>>, alpha |-> <<>>, tref |-> <<>>, ge |-> <<>>, St |-> <<>>, Sc |-> <<>>,
     Ss |-> <<>>, mcsid |-> <<>>]

\* MAT1.add with E, G and nu all given (mat1_E_G_nu then returns them as they are)
MAT1_add(t, mid, E, G, nu, rho, alpha, tref, ge, St, Sc, Ss, mcsid) ==
    [t EXCEPT !.cards = Append(@, [material_id |-> mid, E |-> E, G |-> G, nu |-> nu,
                                   rho |-> rho, alpha |-> alpha, tref |-> tref, ge |-> ge,
                                   St |-> St, Sc |-> Sc, Ss |-> Ss, mcsid |-> mcsid]),
              !.n = @ + 1]

\* MAT1._save: b holds the batch's columns.  On a populated table every column
\* is stacked behind the stored one, and material_id is stacked a second time.
MAT1_save(t, b) ==
    LET stack == Len(t.material_id) # 0
    IN [f \in DOMAIN t |->
          IF f \notin MAT1Columns THEN t[f]
          ELSE IF ~stack THEN b[f]
          ELSE IF f = "material_id" THEN t[f] \o (t[f] \o b[f])
          ELSE t[f] \o b[f]]

MAT1_apply_slice(t, mat, i) ==
    [f \in DOMAIN mat |->
        IF f = "n" THEN Len(i) ELSE IF f \in MAT1Columns THEN Take(t[f], i) ELSE mat[f]]
MAT1_slice_ok(t, i) == \A f \in MAT1Columns : IndexOK(t[f], i)

MAT1_parse_cards(t) ==
    IF ParseSkipped(t) THEN {[t |-> t, err |-> ""]}
    ELSE LET saved == MAT1_save(t, [f \in MAT1Columns |-> Column(t.cards, f)])
         IN {IF r.err = "" THEN [t |-> [r.t EXCEPT !.cards = <<>>], err |-> ""] ELSE r :
                r \in BaseSort(saved, saved.material_id,
                    [i \in Argsorts(saved.material_id) |->
                        IF MAT1_slice_ok(saved, i) THEN [t |-> MAT1_apply_slice(saved, saved, i), err |-> ""]
                        ELSE [t |-> saved, err |-> "IndexError"]])}

\* ----------------------------------------------------- ADD: SPCADD / MPCADD
NewADD == [n |-> 0, cards |-> <<>>, sid |-> <<>>, sids |-> <<>>, nsids |-> <<>>]

\* ADD.add with a list of set ids
ADD_add(t, sid, sets) ==
    [t EXCEPT !.cards = Append(@, <<sid, sets>>), !.n = @ + 1]

\* ADD._save: on a populated table the stored sid column is stacked with the
\* batch's flat sids array
ADD_save_ok(t, nsids) ==
    LET all == IF Len(t.sid) # 0 THEN t.nsids \o nsids ELSE nsids
    IN \A k \in 1..Len(all) : all[k] > 0
ADD_save(t, sid, sids, nsids) ==
    LET stack == Len(t.sid) # 0
        sid2 == IF stack THEN t.sid \o sids ELSE sid
    IN [t EXCEPT !.sid = sid2,
                 !.sids = IF stack THEN t.sids \o sids ELSE sids,
                 !.nsids = IF stack THEN t.nsids \o nsids ELSE nsids,
                 !.n = Len(sid2)]

ADD_parse_cards(t) ==
    IF ParseSkipped(t) THEN [t |-> t, err |-> ""]
    ELSE LET nsids == [c \in 1..Len(t.cards) |-> Len(t.cards[c][2])]
         IN IF \E c \in 1..Len(t.cards) : Len(t.cards[c][2]) = 0
            THEN [t |-> t, err |-> "AssertionError"]
            ELSE IF ~ADD_save_ok(t, nsids)
            THEN [t |-> t, err |-> "AssertionError"]
            ELSE [t |-> [ADD_save(t, Column(t.cards, 1), Flatten(Column(t.cards, 2)), nsids)
                            EXCEPT !.cards = <<>>],
                  err |-> ""]

\* ADD.idim
ADD_idim(t) == make_idim(t.n, t.nsids)

\* ------------------------------------------------------------------ RFORCE1
RFORCE1Columns ==
    {"load_id", "node_id", "coord_id", "scale", "r", "method", "racc", "main_bulk",
     "group_id"}
\* the columns RFORCE1._save stacks behind the stored ones
RFORCE1Stacked == RFORCE1Columns \ {"scale"}

NewRFORCE1 ==
    [n |-> 0, cards |-> <<>>, load_id |-> <<>>, node_id |-> <<>>, coord_id |-> <<>>,
     scale |-> <<>>, r |-> <<>>, method |-> <<>>, racc |-> <<>>, main_bulk |-> <<>>,
     group_id |-> <<>>]

RFORCE1_add(t, sid, nid, scale, group_id, cid, r123, racc, main_bulk, method) ==
    [t EXCEPT !.cards = Append(@, [load_id |-> sid, node_id |-> nid, coord_id |-> cid,
                                   scale |-> scale, r |-> r123, method |-> method,
                                   racc |-> racc, main_bulk |-> main_bulk,
                                   group_id |-> group_id]),
              !.n = @ + 1]

RFORCE1_save(t, b) ==
    LET stack == Len(t.load_id) # 0
    IN [f \in DOMAIN t |->
          IF f \notin RFORCE1Columns THEN t[f]
          ELSE IF stack /\ f \in RFORCE1Stacked THEN t[f] \o b[f]
          ELSE b[f]]

RFORCE1_parse_cards(t) ==
    IF ParseSkipped(t) THEN [t |-> t, err |-> ""]
    ELSE LET saved == RFORCE1_save(t, [f \in RFORCE1Columns |-> Column(t.cards, f)])
         IN IF Len(saved.load_id) # saved.n
            THEN [t |-> saved, err |-> "AssertionError"]
            ELSE [t |-> [saved EXCEPT !.cards = <<>>], err |-> ""]

\* -------------------------------------------------------------------- SLOAD
NewSLOAD == [n |-> 0, cards |-> <<>>, load_id |-> <<>>, nodes |-> <<>>, mags |-> <<>>]

SLOAD_add(t, sid, nodes, mags) ==
    [t EXCEPT !.cards = Append(@, <<sid, nodes, mags>>), !.n = @ + 1]

SLOAD_save(t, load_id, nodes, mags) ==
    LET stack == Len(t.load_id) # 0
        load_id2 == IF stack THEN t.load_id \o load_id ELSE load_id
    IN [t EXCEPT !.load_id = load_id2,
                 !.nodes = IF stack THEN t.nodes \o nodes ELSE nodes,
                 !.mags = IF stack THEN t.mags \o mags ELSE mags,
                 !.n = Len(load_id2)]

\* SLOAD.__apply_slice__: nodes and mags are handed over whole
SLOAD_apply_slice(t, load, i) ==
    [load EXCEPT !.n = Len(i), !.load_id = Take(t.load_id, i), !.nodes = t.nodes,
                 !.mags = t.mags]
SLOAD_slice_ok(t, i) == IndexOK(t.load_id, i)

SLOAD_parse_cards(t) ==
    IF ParseSkipped(t) THEN {[t |-> t, err |-> ""]}
    ELSE LET sids == Flatten([c \in 1..Len(t.cards) |->
                                Repeat(t.cards[c][1], Len(t.cards[c][2]))])
             saved == SLOAD_save(t, sids, Flatten(Column(t.cards, 2)),
                                 Flatten(Column(t.cards, 3)))
         IN {IF r.err = "" THEN [t |-> [r.t EXCEPT !.cards = <<>>], err |-> ""] ELSE r :
                r \in BaseSort(saved, saved.load_id,
                    [i \in Argsorts(saved.load_id) |->
                        IF SLOAD_slice_ok(saved, i) THEN [t |-> SLOAD_apply_slice(saved, saved, i), err |-> ""]
                        ELSE [t |-> saved, err |-> "IndexError"]])}

\* VectorizedBaseCard.slice_card_by_index on an SLOAD: a new table filled by
\* __apply_slice__ (as FORCE.slice_card_by_index does)
SLOAD_slice_card_by_index(t, i) == SLOAD_apply_slice(t, NewSLOAD, i)

\* --------------------------------------------------------------------- SPC1
NewSPC1 ==
    [n |-> 0, cards |-> <<>>, spc_id |-> <<>>, node_id |-> <<>>, components |-> <<>>,
     nnodes |-> <<>>]

SPC1_add(t, spc_id, components, nodes) ==
    [t EXCEPT !.cards = Append(@, <<spc_id, components, nodes>>), !.n = @ + 1]

SPC1_save(t, spc_id, node_id, components, nnodes) ==
    [t EXCEPT !.spc_id = spc_id, !.node_id = node_id, !.components = components,
              !.nnodes = nnodes, !.n = Len(spc_id)]

SPC1_parse_cards(t) ==
    IF ParseSkipped(t) THEN [t |-> t, err |-> ""]
    ELSE [t |-> [SPC1_save(t, Column(t.cards, 1), Flatten(Column(t.cards, 3)),
                           Column(t.cards, 2),
                           [c \in 1..Len(t.cards) |-> Len(t.cards[c][3])])
                    EXCEPT !.cards = <<>>],
          err |-> ""]

\* SPC1.inode
SPC1_inode(t) == make_idim(t.n, t.nnodes)

SPC1_apply_slice(t, spc, i) ==
    [spc EXCEPT !.n = Len(i), !.spc_id = Take(t.spc_id, i),
                !.components = Take(t.components, i), !.nnodes = Take(t.nnodes, i),
                !.node_id = hslice_by_idim(i, SPC1_inode(t), t.node_id)]
SPC1_slice_card_by_index(t, i) == SPC1_apply_slice(t, NewSPC1, i)

\* --------------------------------------------------------------------- SET1
\* dims is the attribute __apply_slice__ creates; nothing reads it
NewSET1 ==
    [n |-> 0, cards |-> <<>>, set_id |-> <<>>, is_skin |-> <<>>, ids |-> <<>>,
     num_ids |-> <<>>, dims |-> <<>>]

\* expand_thru on a list of integers without THRU
expand_thru(ids) == ids

SET1_add(t, sid, ids, is_skin) ==
    [t EXCEPT !.cards = Append(@, <<sid, is_skin, ids>>), !.n = @ + 1]

SET1_save(t, set_id, is_skin, num_ids, ids) ==
    [t EXCEPT !.set_id = set_id, !.is_skin = is_skin, !.num_ids = num_ids, !.ids = ids,
              !.n = Len(set_id)]

\* SET1.inid
SET1_inid(t) == make_idim(t.n, t.num_ids)

\* SET1.__apply_slice__ (the second definition of the class, the one in force):
\* the re-sliced flat array is stored as dims, ids is not assigned
SET1_apply_slice_ok(t, i) == SumSeq(t.num_ids) = Len(t.ids)
SET1_apply_slice(t, set_card, i) ==
    [set_card EXCEPT !.n = Len(i), !.set_id = Take(t.set_id, i),
                     !.is_skin = Take(t.is_skin, i),
                     !.dims = hslice_by_idim(i, SET1_inid(t), t.ids),
                     !.num_ids = Take(t.num_ids, i)]

\* SET1.sort: the outcomes, one per index array argsort may return
SET1_sort(t) ==
    IF Unique(t.set_id) = t.set_id THEN {[t |-> t, err |-> ""]}
    ELSE {IF SET1_apply_slice_ok(t, i) THEN [t |-> SET1_apply_slice(t, t, i), err |-> ""]
                                       ELSE [t |-> t, err |-> "AssertionError"] :
             i \in Argsorts(t.set_id)}

SET1_parse_cards(t) ==
    IF ParseSkipped(t) THEN {[t |-> t, err |-> ""]}
    ELSE LET ids2 == [c \in 1..Len(t.cards) |-> expand_thru(t.cards[c][3])]
             saved == SET1_save(t, Column(t.cards, 1), Column(t.cards, 2),
                                [c \in 1..Len(t.cards) |-> Len(ids2[c])], Flatten(ids2))
         IN {IF r.err = "" THEN [t |-> [r.t EXCEPT !.cards = <<>>], err |-> ""] ELSE r :
                r \in SET1_sort(saved)}

\* VectorizedBaseCard.slice_card_by_index on a SET1: a new table filled by
\* __apply_slice__
SET1_slice_card_by_index(t, i) ==
    IF SET1_apply_slice_ok(t, i) THEN [t |-> SET1_apply_slice(t, NewSET1, i), err |-> ""]
    ELSE [t |-> NewSET1, err |-> "AssertionError"]

\* ------------------------------------------------------------------- SUPORT
NewSUPORT ==
    [n |-> 0, cards |-> <<>>, suport_id |-> <<>>, component |-> <<>>, node_id |-> <<>>]

\* SUPORT.add_set: a SUPORT line, stored under suport_id 0
SUPORT_add_set(t, nids, components) ==
    [t EXCEPT !.cards = Append(@, <<0, nids, components>>), !.n = @ + Len(nids)]

\* SUPORT.add_set1: a SUPORT1 line, one component for all its nodes
SUPORT_add_set1(t, suport_id, nids, component) ==
    LET nids2 == expand_thru(nids)
    IN [t EXCEPT !.cards = Append(@, <<suport_id, nids2, Repeat(component, Len(nids2))>>),
                 !.n = @ + Len(nids2)]

SUPORT_save(t, suport_id, node_id, component) ==
    LET stack == Len(t.node_id) # 0
        node_id2 == IF stack THEN t.node_id \o node_id ELSE node_id
    IN [t EXCEPT !.suport_id = IF stack THEN t.suport_id \o suport_id ELSE suport_id,
                 !.node_id = node_id2,
                 !.component = IF stack THEN t.component \o component ELSE component,
                 !.n = Len(node_id2)]

SUPORT_apply_slice(t, suport, i) ==
    [suport EXCEPT !.n = Len(i), !.suport_id = Take(t.suport_id, i),
                   !.node_id = Take(t.node_id, i), !.component = Take(t.component, i)]
SUPORT_slice_ok(t, i) ==
    IndexOK(t.suport_id, i) /\ IndexOK(t.node_id, i) /\ IndexOK(t.component, i)

\* SUPORT.parse_cards: _setup spreads each card over one row per node
SUPORT_parse_cards(t) ==
    IF ParseSkipped(t) THEN {[t |-> t, err |-> ""]}
    ELSE LET suport_id == Flatten([c \in 1..Len(t.cards) |->
                                     Repeat(t.cards[c][1], Len(t.cards[c][2]))])
             saved == SUPORT_save(t, suport_id, Flatten(Column(t.cards, 2)),
                                  Flatten(Column(t.cards, 3)))
         IN {IF r.err = "" THEN [t |-> [r.t EXCEPT !.cards = <<>>], err |-> ""] ELSE r :
                r \in BaseSort(saved, saved.suport_id,
                    [i \in Argsorts(saved.suport_id) |->
                        IF SUPORT_slice_ok(saved, i) THEN [t |-> SUPORT_apply_slice(saved, saved, i), err |-> ""]
                        ELSE [t |-> saved, err |-> "IndexError"]])}

\* the rows of a whose value is among ids, ascending (0-based positions + 1)
RowsIn(a, ids) == SetToSortedSeq({k \in 1..Len(a) : a[k] \in Range(ids)})

\* SUPORT.index(ids) with check_index: [i |-> index array, err |-> exception].
\* With no matching row ielem is an empty float array, which cannot index.
SUPORT_index(t, ids) ==
    LET ielem == RowsIn(t.suport_id, ids)
    IN IF Len(t.suport_id) = 0 THEN [i |-> <<>>, err |-> "AssertionError"]
       ELSE IF ielem = <<>> THEN [i |-> <<>>, err |-> "IndexError"]
       ELSE IF Take(t.suport_id, ielem) # ids THEN [i |-> <<>>, err |-> "KeyError"]
       ELSE [i |-> ielem, err |-> ""]

\* SPC1.slice_card_by_id(spc_id) with an integer spc_id
SPC1_slice_card_by_id(t, spc_id) ==
    SPC1_apply_slice(t, NewSPC1, RowsIn(t.spc_id, <<spc_id>>))

\* Load.slice_card_by_load_id(load_id) on a FORCE table, load_id an array
Load_slice_card_by_load_id(t, load_id) ==
    LET index == RowsIn(t.load_id, load_id)
    IN IF Len(t.load_id) = 0 THEN [t |-> NewLoad0, err |-> "AssertionError"]
       ELSE IF Len(index) = 0 THEN [t |-> NewLoad0, err |-> "AssertionError"]
       ELSE [t |-> FORCE_slice_card_by_index(t, index), err |-> ""]

\* ------------------------------------------------ card fields, written & read
\* A written card is its list of fields, the card name first.  A field is
\* blank or a token that keeps what the text shows: an integer (no decimal
\* point), a real (with one) or a string.
Blank == <<"blank">>
IntField(v) == <<"int", v>>
RealField(v) == <<"real", v>>
StrField(v) == <<"str", v>>

\* array_default_int / set_blank_if_default: the default is written as a blank
array_default_int(v, default) == IF v = default THEN Blank ELSE IntField(v)
set_blank_if_default(v, default) == IF v = default THEN Blank ELSE RealField(v)

\* print_card / BDFCard: blank fields at the end of a card are not kept
RECURSIVE StripTrailingBlanks(_)
StripTrailingBlanks(fields) ==
    IF fields # <<>> /\ fields[Len(fields)] = Blank
    THEN StripTrailingBlanks(SubSeq(fields, 1, Len(fields) - 1))
    ELSE fields
print_card(list_fields) == StripTrailingBlanks(list_fields)

\* card.field(i), i counted from 0; past the end of the card it is blank
Field(card, i) == IF i + 1 <= Len(card) THEN card[i + 1] ELSE Blank

\* integer, integer_or_blank, double, double_or_blank, string: whether the
\* field is accepted, and the value read
integer_ok(card, i) == Field(card, i)[1] = "int"
integer(card, i) == Field(card, i)[2]
integer_or_blank_ok(card, i) == Field(card, i)[1] \in {"int", "blank"}
integer_or_blank(card, i, default) ==
    IF Field(card, i) = Blank THEN default ELSE Field(card, i)[2]
double_ok(card, i) == Field(card, i)[1] = "real"
double(card, i) == Field(card, i)[2]
double_or_blank_ok(card, i) == Field(card, i)[1] \in {"real", "blank"}
double_or_blank(card, i, default) ==
    IF Field(card, i) = Blank THEN default ELSE Field(card, i)[2]
string_ok(card, i) == Field(card, i)[1] = "str"
string(card, i) == Field(card, i)[2]

\* ------------------------------------------------------ Load2: FORCE2/MOMENT2
NewLoad2 ==
    [n |-> 0, cards |-> <<>>, load_id |-> <<>>, node_id |-> <<>>, nodes |-> <<>>,
     mag |-> <<>>]

Load2_add(t, sid, node, mag, g1, g2, g3, g4) ==
    [t EXCEPT !.cards = Append(@, <<sid, node, mag, <<g1, g2, g3, g4>>>>), !.n = @ + 1]

Load2_add_card_ok(card) ==
    /\ integer_ok(card, 1) /\ integer_ok(card, 2) /\ double_ok(card, 3)
    /\ \A i \in 4..7 : integer_ok(card, i)
    /\ Len(card) = 8
Load2_add_card(t, card) ==
    [t EXCEPT !.cards = Append(@, <<integer(card, 1), integer(card, 2), double(card, 3),
                                    <<integer(card, 4), integer(card, 5), integer(card, 6),
                                      integer(card, 7)>>>>),
              !.n = @ + 1]

\* a _save that takes a second batch: what the check on the committed rows
\* prevents
Load2_save_unguarded(t) == ""

\* Load2._save: refuses a table that is already populated
Load2_save_err(t) == IF Len(t.load_id) # 0 THEN "NotImplementedError" ELSE ""
Load2_save(t, load_id, node_id, mag, nodes) ==
    [t EXCEPT !.load_id = load_id, !.node_id = node_id, !.mag = mag, !.nodes = nodes,
              !.n = Len(load_id)]

Load2_parse_cards(t) ==
    IF t.n = 0 THEN [t |-> t, err |-> ""]
    ELSE IF Len(t.cards) = 0 THEN [t |-> t, err |-> ""]
    ELSE IF Load2_save_err(t) # "" THEN [t |-> t, err |-> Load2_save_err(t)]
    ELSE LET saved == Load2_save(t, Column(t.cards, 1), Column(t.cards, 2),
                                 Column(t.cards, 3), Column(t.cards, 4))
         IN IF Len(saved.load_id) # saved.n THEN [t |-> saved, err |-> "AssertionError"]
            ELSE [t |-> [saved EXCEPT !.cards = <<>>], err |-> ""]

\* ------------------------------------------------- Load1: FORCE1 / MOMENT1
NewLoad1 ==
    [n |-> 0, cards |-> <<>>, load_id |-> <<>>, node_id |-> <<>>, mag |-> <<>>,
     nodes |-> <<>>]

Load1_add(t, sid, node, mag, g1, g2) ==
    [t EXCEPT !.cards = Append(@, <<sid, node, mag, <<g1, g2>>>>), !.n = @ + 1]

\* Load1._save: refuses a table that is already populated
Load1_save_err(t) == IF Len(t.load_id) # 0 THEN "NotImplementedError" ELSE ""
Load1_save(t, load_id, node_id, mag, nodes) ==
    [t EXCEPT !.load_id = load_id, !.node_id = node_id, !.mag = mag, !.nodes = nodes,
              !.n = Len(load_id)]

Load1_parse_cards(t) ==
    IF ParseSkipped(t) THEN [t |-> t, err |-> ""]
    ELSE IF Load1_save_err(t) # "" THEN [t |-> t, err |-> Load1_save_err(t)]
    ELSE LET saved == Load1_save(t, Column(t.cards, 1), Column(t.cards, 2),
                                 Column(t.cards, 3), Column(t.cards, 4))
         IN IF Len(saved.load_id) # saved.n THEN [t |-> saved, err |-> "AssertionError"]
            ELSE [t |-> [saved EXCEPT !.cards = <<>>], err |-> ""]

\* Load2.write_file: one card per row, the direction nodes written in the
\* order nodes[0], nodes[2], nodes[1], nodes[3] (both field sizes)
Load2_write_file(t, card_class) ==
    [k \in 1..Min(Min(Len(t.load_id), Len(t.node_id)), Min(Len(t.mag), Len(t.nodes))) |->
        print_card(<<StrField(card_class), IntField(t.load_id[k]), IntField(t.node_id[k]),
                     RealField(t.mag[k]),
                     array_default_int(t.nodes[k][1], 0), array_default_int(t.nodes[k][3], 0),
                     array_default_int(t.nodes[k][2], 0), array_default_int(t.nodes[k][4], 0)>>)]

\* --------------------------------------------------------------------- MAT8
G1ZDefault == 100000000
MAT8Columns ==
    {"material_id", "E11", "E22", "G12", "G13", "G23", "nu12", "rho", "alpha", "tref",
     "ge", "Xt", "Xc", "Yt", "Yc", "S", "f12", "strn"}

NewMAT8 ==
    [n |-> 0, cards |-> <<>>, material_id |-> <<>>, E11 |-> <<>>, E22 |-> <<>>,
     G12 |-> <<>>, G13 |-> <<>>, G23 |-> <<>>, nu12 |-> <<>>, rho |-> <<>>, alpha |-> <<>>,
     tref |-> <<>>, ge |-> <<>>, Xt |-> <<>>, Xc |-> <<>>, Yt |-> <<>>, Yc |-> <<>>,
     S |-> <<>>, f12 |-> <<>>, strn |-> <<>>]

\* the tuple MAT8.add and MAT8.add_card stage, as a record of the columns
\* parse_cards spreads it over
MAT8_card(mid, e11, e22, nu12, g12, g1z, g2z, rho, a1, a2, tref, xt, xc, yt, yc, s, ge, f12, strn) ==
    [material_id |-> mid, E11 |-> e11, E22 |-> e22, nu12 |-> nu12, G12 |-> g12,
     G13 |-> g1z, G23 |-> g2z, rho |-> rho, alpha |-> <<a1, a2>>, tref |-> tref,
     Xt |-> xt, Xc |-> xc, Yt |-> yt, Yc |-> yc, S |-> s, ge |-> ge, f12 |-> f12,
     strn |-> strn]

\* MAT8.add with xc and yc left out (they take xt and yt)
MAT8_add(t, mid, e11, e22, nu12, g12, g1z, g2z, rho, a1, a2, tref, xt, yt, s, ge, f12, strn) ==
    [t EXCEPT !.cards = Append(@, MAT8_card(mid, e11, e22, nu12, g12, g1z, g2z, rho, a1, a2,
                                            tref, xt, xt, yt, yt, s, ge, f12, strn)),
              !.n = @ + 1]

MAT8_add_card_ok(card) ==
    /\ integer_ok(card, 1) /\ double_ok(card, 2) /\ double_ok(card, 3)
    /\ \A i \in 4..19 : double_or_blank_ok(card, i)
    /\ Len(card) <= 20
MAT8_add_card(t, card) ==
    LET xt == double_or_blank(card, 12, 0)
        yt == double_or_blank(card, 14, 0)
    IN [t EXCEPT !.cards =
            Append(@, MAT8_card(integer(card, 1), double(card, 2), double(card, 3),
                                double_or_blank(card, 4, 0), double_or_blank(card, 5, 0),
                                double_or_blank(card, 6, G1ZDefault),
                                double_or_blank(card, 7, G1ZDefault),
                                double_or_blank(card, 8, 0), double_or_blank(card, 9, 0),
                                double_or_blank(card, 10, 0), double_or_blank(card, 11, 0),
                                xt, double_or_blank(card, 13, xt),
                                yt, double_or_blank(card, 15, yt),
                                double_or_blank(card, 16, 0), double_or_blank(card, 17, 0),
                                double_or_blank(card, 18, 0), double_or_blank(card, 19, 0))),
                 !.n = @ + 1]

MAT8_save(t, b) ==
    [f \in DOMAIN t |->
        IF f \in MAT8Columns THEN b[f] ELSE IF f = "n" THEN Len(b.material_id) ELSE t[f]]

MAT8_apply_slice(t, mat, i) ==
    [f \in DOMAIN mat |->
        IF f = "n" THEN Len(i) ELSE IF f \in MAT8Columns THEN Take(t[f], i) ELSE mat[f]]
MAT8_slice_ok(t, i) == \A f \in MAT8Columns : IndexOK(t[f], i)

MAT8_parse_cards(t) ==
    IF ParseSkipped(t) THEN {[t |-> t, err |-> ""]}
    ELSE IF Len(t.material_id) # 0 THEN {[t |-> t, err |-> "NotImplementedError"]}
    ELSE LET saved == MAT8_save(t, [f \in MAT8Columns |-> Column(t.cards, f)])
         IN {IF r.err = "" THEN [t |-> [r.t EXCEPT !.cards = <<>>], err |-> ""] ELSE r :
                r \in BaseSort(saved, saved.material_id,
                    [i \in Argsorts(saved.material_id) |->
                        IF MAT8_slice_ok(saved, i) THEN [t |-> MAT8_apply_slice(saved, saved, i), err |-> ""]
                        ELSE [t |-> saved, err |-> "IndexError"]])}

\* MAT8.write_file: the row is zipped from (material_id, E11, E22, G12, G13,
\* G13, nu12, ...), so the g23 it writes is the row's G13
MAT8_write_file(t) ==
    [k \in 1..Len(t.material_id) |->
        LET g13 == t.G13[k]
            g23 == t.G13[k]
        IN print_card(<<StrField("MAT8"), IntField(t.material_id[k]), RealField(t.E11[k]),
                        RealField(t.E22[k]), RealField(t.nu12[k]),
                        set_blank_if_default(t.G12[k], 0),
                        set_blank_if_default(g13, G1ZDefault),
                        set_blank_if_default(g23, G1ZDefault),
                        set_blank_if_default(t.rho[k], 0),
                        set_blank_if_default(t.alpha[k][1], 0),
                        set_blank_if_default(t.alpha[k][2], 0),
                        set_blank_if_default(t.tref[k], 0),
                        set_blank_if_default(t.Xt[k], 0),
                        set_blank_if_default(t.Xc[k], t.Xt[k]),
                        set_blank_if_default(t.Yt[k], 0),
                        set_blank_if_default(t.Yc[k], t.Yt[k]),
                        set_blank_if_default(t.S[k], 0), set_blank_if_default(t.ge[k], 0),
                        set_blank_if_default(t.f12[k], 0),
                        set_blank_if_default(t.strn[k], 0)>>)]

\* -------------------------------------------------------------------- ACCEL
NewACCEL ==
    [n |-> 0, cards |-> <<>>, load_id |-> <<>>, coord_id |-> <<>>, nloc |-> <<>>,
     locs |-> <<>>, vals |-> <<>>, direction |-> <<>>, N |-> <<>>]

ACCEL_add(t, sid, N, direction, locs, vals, cid) ==
    [t EXCEPT !.cards = Append(@, <<sid, N, direction, locs, vals, cid>>), !.n = @ + 1]

\* ACCEL.add_card: the fields from 9 on are read two by two; loc and val are
\* both read from the first field of the pair
ACCEL_pairs(card) == {j \in 0..Len(card) : 9 + 2 * j < Len(card)}
ACCEL_add_card_ok(card) ==
    /\ integer_ok(card, 1) /\ integer_or_blank_ok(card, 2)
    /\ \A i \in 3..5 : double_or_blank_ok(card, i)
    /\ string_ok(card, 6)
    /\ \A j \in ACCEL_pairs(card) : double_ok(card, 9 + 2 * j)
ACCEL_add_card(t, card) ==
    LET npairs == Cardinality(ACCEL_pairs(card))
        locs == [j \in 1..npairs |-> double(card, 9 + 2 * (j - 1))]
        vals == [j \in 1..npairs |-> double(card, 9 + 2 * (j - 1))]
    IN [t EXCEPT !.cards = Append(@, <<integer(card, 1),
                                       <<double_or_blank(card, 3, 0),
                                         double_or_blank(card, 4, 0),
                                         double_or_blank(card, 5, 0)>>,
                                       string(card, 6), locs, vals,
                                       integer_or_blank(card, 2, 0)>>),
                 !.n = @ + 1]

ACCEL_save(t, load_id, coord_id, nloc, locs, vals, direction, N) ==
    [t EXCEPT !.load_id = load_id, !.coord_id = coord_id, !.nloc = nloc, !.locs = locs,
              !.vals = vals, !.direction = direction, !.N = N, !.n = Len(load_id)]

ACCEL_parse_cards(t) ==
    IF ParseSkipped(t) THEN [t |-> t, err |-> ""]
    ELSE IF \E c \in 1..Len(t.cards) : Len(t.cards[c][4]) # Len(t.cards[c][5])
    THEN [t |-> t, err |-> "AssertionError"]
    ELSE IF Len(t.load_id) # 0 THEN [t |-> t, err |-> "NameError"]
    ELSE LET saved == ACCEL_save(t, Column(t.cards, 1), Column(t.cards, 6),
                                 [c \in 1..Len(t.cards) |-> Len(t.cards[c][4])],
                                 Flatten(Column(t.cards, 4)), Flatten(Column(t.cards, 5)),
                                 Column(t.cards, 3), Column(t.cards, 2))
         IN IF Len(saved.load_id) # saved.n THEN [t |-> saved, err |-> "AssertionError"]
            ELSE [t |-> [saved EXCEPT !.cards = <<>>], err |-> ""]

\* ACCEL.iloc
ACCEL_iloc(t) == make_idim(t.n, t.nloc)

ACCEL_write_file(t) ==
    [k \in 1..Len(t.load_id) |->
        LET locs == PySlice(t.locs, ACCEL_iloc(t)[k][1], ACCEL_iloc(t)[k][2])
            vals == PySlice(t.vals, ACCEL_iloc(t)[k][1], ACCEL_iloc(t)[k][2])
        IN print_card(<<StrField("ACCEL"), array_default_int(t.load_id[k], 0),
                        array_default_int(t.coord_id[k], 0), RealField(t.N[k][1]),
                        RealField(t.N[k][2]), RealField(t.N[k][3]),
                        StrField(t.direction[k]), Blank, Blank>>
                      \o Flatten([j \in 1..Min(Len(locs), Len(vals)) |->
                                    <<RealField(locs[j]), RealField(vals[j])>>]))]

\* ----------------------------------------------------------------- the model
\* ------------------------------------------------------------------- PLOTEL
NewPLOTEL == [n |-> 0, cards |-> <<>>, element_id |-> <<>>, nodes |-> <<>>]

\* PLOTEL.add_card: one element from fields 1-3, a second from fields 5-7 when
\* field 5 is filled; n is raised once per element staged and once more at
\* the end
PLOTEL_add_card(t, card) ==
    LET first == <<integer(card, 1), <<integer(card, 2), integer(card, 3)>>>>
        second == <<integer(card, 5), <<integer(card, 6), integer(card, 7)>>>>
    IN IF Field(card, 5) # Blank
       THEN [t EXCEPT !.cards = @ \o <<first, second>>, !.n = @ + 1 + 1 + 1]
       ELSE [t EXCEPT !.cards = Append(@, first), !.n = @ + 1 + 1]

PLOTEL_save(t, element_id, nodes) ==
    [t EXCEPT !.element_id = element_id, !.nodes = nodes, !.n = Len(element_id)]

PLOTEL_parse_cards(t) ==
    IF ParseSkipped(t) THEN [t |-> t, err |-> ""]
    ELSE [t |-> [PLOTEL_save(t, Column(t.cards, 1), Column(t.cards, 2)) EXCEPT !.cards = <<>>],
          err |-> ""]

\* DEFORM.add_card: one (sid, eid, deformation) per filled pair of fields,
\* n raised with each
DEFORM_add_card(t, card) ==
    LET sid == integer(card, 1)
        pairs == <<<<sid, integer(card, 2), double(card, 3)>>>>
                 \o (IF Field(card, 4) # Blank
                     THEN <<<<sid, integer(card, 4), double(card, 5)>>>> ELSE <<>>)
                 \o (IF Field(card, 6) # Blank
                     THEN <<<<sid, integer(card, 6), double(card, 7)>>>> ELSE <<>>)
    IN [t EXCEPT !.cards = @ \o pairs, !.n = @ + Len(pairs)]

\* SPC.add_card: one staged entry holding one or two (node, component,
\* enforced) groups, n raised by one
SPC_add_card(t, card) ==
    LET spc_idi == integer(card, 1)
        entry == IF Field(card, 5) = Blank
                 THEN <<<<spc_idi>>, <<integer(card, 2)>>, <<integer_or_blank(card, 3, 0)>>,
                        <<double_or_blank(card, 4, 0)>>>>
                 ELSE <<<<spc_idi, spc_idi>>,
                        <<integer(card, 2), integer_or_blank(card, 5, 0)>>,
                        <<integer_or_blank(card, 3, 0), integer_or_blank(card, 6, 0)>>,
                        <<double_or_blank(card, 4, 0), double_or_blank(card, 7, 0)>>>>
    IN [t EXCEPT !.cards = Append(@, entry), !.n = @ + 1]

\* -------------------------------------------------------------------- CONM2
\* mass is the attribute _mass; xyz_offset and inertia hold one row per element
NewCONM2 ==
    [n |-> 0, cards |-> <<>>, element_id |-> <<>>, mass |-> <<>>, coord_id |-> <<>>,
     node_id |-> <<>>, xyz_offset |-> <<>>, inertia |-> <<>>]

CONM2_add(t, eid, nid, mass, cid, X, I) ==
    [t EXCEPT !.cards = Append(@, <<eid, nid, cid, mass, X, I>>), !.n = @ + 1]

\* CONM2._save: refuses a table that is already populated
CONM2_save_err(t) == IF Len(t.element_id) # 0 THEN "RuntimeError" ELSE ""
CONM2_save(t, element_id, mass, coord_id, node_id, xyz_offset, inertia) ==
    [t EXCEPT !.element_id = element_id, !.mass = mass, !.coord_id = coord_id,
              !.node_id = node_id, !.xyz_offset = xyz_offset, !.inertia = inertia]

CONM2_apply_slice(t, elem, i) ==
    [elem EXCEPT !.element_id = Take(t.element_id, i), !.mass = Take(t.mass, i),
                 !.coord_id = Take(t.coord_id, i), !.node_id = Take(t.node_id, i),
                 !.xyz_offset = Take(t.xyz_offset, i), !.inertia = Take(t.inertia, i),
                 !.n = Len(i)]

CONM2_parse_cards(t) ==
    IF ParseSkipped(t) THEN {[t |-> t, err |-> ""]}
    ELSE IF CONM2_save_err(t) # "" THEN {[t |-> t, err |-> CONM2_save_err(t)]}
    ELSE LET saved == CONM2_save(t, Column(t.cards, 1), Column(t.cards, 4),
                                 Column(t.cards, 3), Column(t.cards, 2),
                                 Column(t.cards, 5), Column(t.cards, 6))
         IN {[t |-> [r.t EXCEPT !.cards = <<>>], err |-> ""] :
                r \in BaseSort(saved, saved.element_id,
                    [i \in Argsorts(saved.element_id) |->
                        [t |-> CONM2_apply_slice(saved, saved, i), err |-> ""]])}

\* geom_check(card, missing, role=(ids of the target, referenced ids), ...):
\* the referenced ids the target lacks are recorded under the role
NoMissing == [node |-> {}, coord |-> {}, element_id |-> {}]
geom_check(missing, role, target, referenced) ==
    [missing EXCEPT ![role] = @ \cup (Range(referenced) \ Range(target))]

\* CONM2.geom_check(missing) against the grid's node_id and the coord table's
\* coord_id: the lookup is made inside the branch that drops a leading -1
CONM2_geom_check(t, nid, cid, missing) ==
    LET ucid == Unique(t.coord_id)
    IN IF Len(ucid) = 0 THEN [missing |-> missing, err |-> "IndexError"]
       ELSE IF ucid[1] = -1
            THEN [missing |-> geom_check(geom_check(missing, "node", nid, t.node_id),
                                         "coord", cid, Tail(ucid)),
                  err |-> ""]
            ELSE [missing |-> missing, err |-> ""]

\* DEFORM.geom_check(missing): line_element_ids are the element_id arrays of
\* the line element tables that have rows; np.hstack refuses an empty list
DEFORM_geom_check(t, line_element_ids, missing) ==
    IF Len(line_element_ids) = 0 THEN [missing |-> missing, err |-> "ValueError"]
    ELSE [missing |-> geom_check(missing, "element_id",
                                 Unique(Flatten(line_element_ids)), t.elements),
          err |-> ""]

\* a *= factor on a column, and on a column of rows
ScaleBy(a, factor) == [k \in 1..Len(a) |-> a[k] * factor]
ScaleRowsBy(a, factor) == [k \in 1..Len(a) |-> ScaleBy(a[k], factor)]

\* CONM2.convert(xyz_scale, mass_scale, mass_inertia_scale, **kwargs)
CONM2_convert(t, scales) ==
    [t EXCEPT !.xyz_offset = ScaleRowsBy(@, scales.xyz_scale),
              !.mass = ScaleBy(@, scales.mass_scale),
              !.inertia = ScaleRowsBy(@, scales.mass_inertia_scale)]

\* MAT1.convert with the density taken from the stress factor: what a mix-up
\* of two factors would give
MAT1_convert_mixed(t, scales) ==
    [t EXCEPT !.E = ScaleBy(@, scales.stiffness_scale),
              !.G = ScaleBy(@, scales.stiffness_scale),
              !.rho = ScaleBy(@, scales.stress_scale),
              !.alpha = ScaleBy(@, scales.alpha_scale),
              !.Ss = ScaleBy(@, scales.stress_scale),
              !.St = ScaleBy(@, scales.stress_scale),
              !.Sc = ScaleBy(@, scales.stress_scale)]

\* MAT1.convert(stiffness_scale, density_scale, alpha_scale, temperature_scale,
\* stress_scale, **kwargs)
MAT1_convert(t, scales) ==
    [t EXCEPT !.E = ScaleBy(@, scales.stiffness_scale),
              !.G = ScaleBy(@, scales.stiffness_scale),
              !.rho = ScaleBy(@, scales.density_scale),
              !.alpha = ScaleBy(@, scales.alpha_scale),
              !.Ss = ScaleBy(@, scales.stress_scale),
              !.St = ScaleBy(@, scales.stress_scale),
              !.Sc = ScaleBy(@, scales.stress_scale)]

\* the ASET table (ABCOQSET) and the USET table
NewABCOQSET == [n |-> 0, cards |-> <<>>, component |-> <<>>, node_id |-> <<>>]
\* a USET name is held as its rank among the names (U1 is 1, U2 is 2): the
\* order of the ranks is the order of the strings
NewUSET == [n |-> 0, cards |-> <<>>, name |-> <<>>, component |-> <<>>, node_id |-> <<>>]

NewModel ==
    [force |-> NewLoad0, spc |-> NewSPC, load |-> NewLOAD, deform |-> NewDEFORM,
     mpc |-> NewMPC, mat1 |-> NewMAT1, spcadd |-> NewADD, rforce1 |-> NewRFORCE1,
     sload |-> NewSLOAD, spc1 |-> NewSPC1, set1 |-> NewSET1,
     suport |-> NewSUPORT, force2 |-> NewLoad2, mat8 |-> NewMAT8, accel |-> NewACCEL,
     mpcadd |-> NewADD, aset |-> NewABCOQSET, uset |-> NewUSET, plotel |-> NewPLOTEL,
     conm2 |-> NewCONM2, force1 |-> NewLoad1]

\* inputs
Mags == {1, 2}
Directions == {<<1, 0, 0>>}
Components == {123}
Enforced == {0}
Scales == {1, 2}
NodeLists == SeqsUpTo(Ids, 1, 2)
AggregateIds == {100, 200}
\* the ids a lookup may ask for: those in use and one that no row carries
LookupIds == 1..(MaxId + 1)
LookupLists == {SetToSortedSeq(S) : S \in (SUBSET LookupIds) \ {{}}}
\* id lists as a card carries them: ascending, no id twice
IdLists == {SetToSortedSeq(S) : S \in (SUBSET Ids) \ {{}}}

\* the index arrays of a slice: ascending rows of a table of nrows rows
Ascending(S) == SetToSortedSeq(S)
IndexArrays(nrows) == {Ascending(S) : S \in SUBSET (1..nrows)}

\* ===================================== one card table: add, parse_cards, slice
TableKinds ==
    {"FORCE", "SPC", "LOAD", "DEFORM", "MPC", "MAT1", "SPCADD", "RFORCE1", "SLOAD",
     "SPC1", "SET1", "SUPORT"}

TableInit ==
    /\ model = NewModel
    /\ kind \in TableKinds
    /\ raised = ""
    /\ hist = <<>>
    /\ phase = "staging"
    /\ nparse = 0
    /\ result = NoResult

CanAdd(k) == kind = k /\ raised = "" /\ Len(hist) < MaxCards
CanParse(k) == kind = k /\ raised = "" /\ nparse < MaxBatches

Staged(args, m) ==
    /\ model' = m
    /\ hist' = Append(hist, args)
    /\ phase' = "staging"
    /\ UNCHANGED <<kind, raised, nparse, result>>

\* a parse_cards call: r is what the table's parse_cards produced
Parsed(m, old, r) ==
    /\ model' = m
    /\ raised' = r.err
    /\ phase' = IF r.err = "" THEN "parsed" ELSE "failed"
    /\ nparse' = IF r.err = "" /\ ~ParseSkipped(old) THEN nparse + 1 ELSE nparse
    /\ UNCHANGED <<kind, hist, result>>

FORCE_Add ==
    /\ CanAdd("FORCE")
    /\ \E sid \in Ids, node \in Ids, mag \in Mags, xyz \in Directions :
          Staged(<<sid, node, 0, mag, xyz>>,
                 [model EXCEPT !.force = Load0_add(@, sid, node, mag, xyz, 0)])

FORCE_ParseCards ==
    /\ CanParse("FORCE")
    /\ LET r == Load0_parse_cards(model.force)
       IN Parsed([model EXCEPT !.force = r.t], model.force, r)

SPC_Add ==
    /\ CanAdd("SPC")
    /\ \E spc_id \in Ids, nodes \in NodeLists, c \in Components, enforced \in Enforced :
          Staged(<<spc_id, nodes, Repeat(c, Len(nodes)), enforced>>,
                 [model EXCEPT !.spc = SPC_add(@, spc_id, nodes, Repeat(c, Len(nodes)),
                                               enforced)])

SPC_ParseCards ==
    /\ CanParse("SPC")
    /\ LET r == SPC_parse_cards(model.spc)
       IN Parsed([model EXCEPT !.spc = r.t], model.spc, r)

LOAD_Add ==
    /\ CanAdd("LOAD")
    /\ \E sid \in Ids, scale \in Scales, load_ids \in NodeLists, sf \in Scales :
          Staged(<<sid, scale, Repeat(sf, Len(load_ids)), load_ids>>,
                 [model EXCEPT !.load = LOAD_add(@, sid, scale, Repeat(sf, Len(load_ids)),
                                                 load_ids)])

LOAD_ParseCards ==
    /\ CanParse("LOAD")
    /\ LET r == LOAD_parse_cards(model.load)
       IN Parsed([model EXCEPT !.load = r.t], model.load, r)

DEFORM_Add ==
    /\ CanAdd("DEFORM")
    /\ \E sid \in Ids, eid \in Ids, deformation \in Mags :
          Staged(<<sid, eid, deformation>>,
                 [model EXCEPT !.deform = DEFORM_add(@, sid, eid, deformation)])

DEFORM_ParseCards ==
    /\ CanParse("DEFORM")
    /\ \E r \in DEFORM_parse_cards(model.deform) :
          Parsed([model EXCEPT !.deform = r.t], model.deform, r)

MPC_Add ==
    /\ CanAdd("MPC")
    /\ \E mpc_id \in Ids, nodes \in NodeLists, c \in Components, a \in Mags :
          Staged(<<mpc_id, nodes, Repeat(c, Len(nodes)), Repeat(a, Len(nodes))>>,
                 [model EXCEPT !.mpc = MPC_add(@, mpc_id, nodes, Repeat(c, Len(nodes)),
                                               Repeat(a, Len(nodes)))])

MPC_ParseCards ==
    /\ CanParse("MPC")
    /\ LET r == MPC_parse_cards(model.mpc)
       IN Parsed([model EXCEPT !.mpc = r.t], model.mpc, r)

MAT1_Add ==
    /\ CanAdd("MAT1")
    /\ \E mid \in Ids, E \in Mags, G \in Mags, rho \in Enforced :
          Staged(<<mid, E, G>>,
                 [model EXCEPT !.mat1 = MAT1_add(@, mid, E, G, 0, rho, 0, 0, 0, 0, 0, 0, 0)])

MAT1_ParseCards ==
    /\ CanParse("MAT1")
    /\ \E r \in MAT1_parse_cards(model.mat1) :
          Parsed([model EXCEPT !.mat1 = r.t], model.mat1, r)

SPCADD_Add ==
    /\ CanAdd("SPCADD")
    /\ \E sid \in AggregateIds, sets \in NodeLists :
          Staged(<<sid, sets>>, [model EXCEPT !.spcadd = ADD_add(@, sid, sets)])

SPCADD_ParseCards ==
    /\ CanParse("SPCADD")
    /\ LET r == ADD_parse_cards(model.spcadd)
       IN Parsed([model EXCEPT !.spcadd = r.t], model.spcadd, r)

RFORCE1_Add ==
    /\ CanAdd("RFORCE1")
    /\ \E sid \in Ids, nid \in Ids, scale \in Scales :
          Staged(<<sid, nid, scale>>,
                 [model EXCEPT !.rforce1 =
                     RFORCE1_add(@, sid, nid, scale, 0, 0, <<1, 0, 0>>, 0, 0, 2)])

RFORCE1_ParseCards ==
    /\ CanParse("RFORCE1")
    /\ LET r == RFORCE1_parse_cards(model.rforce1)
       IN Parsed([model EXCEPT !.rforce1 = r.t], model.rforce1, r)

SLOAD_Add ==
    /\ CanAdd("SLOAD")
    /\ \E sid \in Ids, nodes \in NodeLists, mag \in Mags :
          Staged(<<sid, nodes, Repeat(mag, Len(nodes))>>,
                 [model EXCEPT !.sload = SLOAD_add(@, sid, nodes, Repeat(mag, Len(nodes)))])

SLOAD_ParseCards ==
    /\ CanParse("SLOAD")
    /\ \E r \in SLOAD_parse_cards(model.sload) :
          Parsed([model EXCEPT !.sload = r.t], model.sload, r)

\* a slice of the committed table; the table itself is left alone
Sliced(k, t) ==
    /\ result' = [tag |-> k, t |-> t]
    /\ phase' = "sliced"
    /\ UNCHANGED <<model, kind, raised, hist, nparse>>

\* slices and lookups are taken of a table that parse_cards has populated
CanSlice(k) == kind = k /\ raised = "" /\ phase \in {"parsed", "sliced"} /\ nparse > 0

SLOAD_SliceByIndex ==
    /\ CanSlice("SLOAD")
    /\ \E i \in IndexArrays(Len(model.sload.load_id)) :
          Sliced("SLOAD", SLOAD_slice_card_by_index(model.sload, i))

SPC1_Add ==
    /\ CanAdd("SPC1")
    /\ \E spc_id \in Ids, c \in Components, nodes \in NodeLists :
          Staged(<<spc_id, c, nodes>>, [model EXCEPT !.spc1 = SPC1_add(@, spc_id, c, nodes)])

SPC1_ParseCards ==
    /\ CanParse("SPC1")
    /\ LET r == SPC1_parse_cards(model.spc1)
       IN Parsed([model EXCEPT !.spc1 = r.t], model.spc1, r)

SPC1_SliceByIndex ==
    /\ CanSlice("SPC1")
    /\ \E i \in IndexArrays(Len(model.spc1.spc_id)) :
          Sliced("SPC1", SPC1_slice_card_by_index(model.spc1, i))

SET1_Add ==
    /\ CanAdd("SET1")
    /\ \E sid \in Ids, ids \in IdLists :
          Staged(<<sid, ids>>, [model EXCEPT !.set1 = SET1_add(@, sid, ids, FALSE)])

SET1_ParseCards ==
    /\ CanParse("SET1")
    /\ \E r \in SET1_parse_cards(model.set1) :
          Parsed([model EXCEPT !.set1 = r.t], model.set1, r)

SET1_SliceByIndex ==
    /\ CanSlice("SET1")
    /\ \E i \in IndexArrays(Len(model.set1.set_id)) :
          LET r == SET1_slice_card_by_index(model.set1, i)
          IN IF r.err = "" THEN Sliced("SET1", r.t)
             ELSE /\ raised' = r.err
                  /\ phase' = "failed"
                  /\ UNCHANGED <<model, kind, hist, nparse, result>>

LOAD_SliceByIndex ==
    /\ CanSlice("LOAD")
    /\ \E i \in IndexArrays(Len(model.load.load_id)) :
          Sliced("LOAD", LOAD_slice_card_by_index(model.load, i))

SUPORT_AddSet ==
    /\ CanAdd("SUPORT")
    /\ \E nids \in IdLists, c \in Components :
          Staged(<<0, nids>>,
                 [model EXCEPT !.suport = SUPORT_add_set(@, nids, Repeat(c, Len(nids)))])

SUPORT_AddSet1 ==
    /\ CanAdd("SUPORT")
    /\ \E suport_id \in Ids, nids \in IdLists, c \in Components :
          Staged(<<suport_id, nids>>,
                 [model EXCEPT !.suport = SUPORT_add_set1(@, suport_id, nids, c)])

SUPORT_ParseCards ==
    /\ CanParse("SUPORT")
    /\ \E r \in SUPORT_parse_cards(model.suport) :
          Parsed([model EXCEPT !.suport = r.t], model.suport, r)

\* a lookup by id: what was asked for, what came back, what was raised
Looked(k, ids, out, err) ==
    /\ result' = [tag |-> k, ids |-> ids, out |-> out]
    /\ raised' = err
    /\ phase' = "looked"
    /\ UNCHANGED <<model, kind, hist, nparse>>

CanLook(k) == kind = k /\ raised = "" /\ phase = "parsed" /\ nparse > 0

SUPORT_Index ==
    /\ CanLook("SUPORT")
    /\ \E ids \in LookupLists :
          LET r == SUPORT_index(model.suport, ids)
          IN Looked("SUPORT.index", ids, r.i, r.err)

SPC1_SliceById ==
    /\ CanLook("SPC1")
    /\ \E spc_id \in LookupIds :
          Looked("SPC1.slice_card_by_id", <<spc_id>>,
                 SPC1_slice_card_by_id(model.spc1, spc_id), "")

FORCE_SliceByLoadId ==
    /\ CanLook("FORCE")
    /\ \E load_id \in LookupLists :
          LET r == Load_slice_card_by_load_id(model.force, load_id)
          IN Looked("Load.slice_card_by_load_id", load_id, r.t, r.err)

TableNext ==
    \/ FORCE_Add \/ FORCE_ParseCards \/ FORCE_SliceByLoadId
    \/ SPC_Add \/ SPC_ParseCards
    \/ LOAD_Add \/ LOAD_ParseCards \/ LOAD_SliceByIndex
    \/ DEFORM_Add \/ DEFORM_ParseCards
    \/ MPC_Add \/ MPC_ParseCards
    \/ MAT1_Add \/ MAT1_ParseCards
    \/ SPCADD_Add \/ SPCADD_ParseCards
    \/ RFORCE1_Add \/ RFORCE1_ParseCards
    \/ SLOAD_Add \/ SLOAD_ParseCards \/ SLOAD_SliceByIndex
    \/ SPC1_Add \/ SPC1_ParseCards \/ SPC1_SliceByIndex \/ SPC1_SliceById
    \/ SET1_Add \/ SET1_ParseCards \/ SET1_SliceByIndex
    \/ SUPORT_AddSet \/ SUPORT_AddSet1 \/ SUPORT_ParseCards \/ SUPORT_Index

SpecTable == TableInit /\ [][TableNext]_vars

\* ============================================== reduction of aggregate cards
\* A dict is a function whose DOMAIN is the set of keys; {} is <<>>.
DictSet(d, key, value) ==
    [x \in (DOMAIN d) \cup {key} |-> IF x = key THEN value ELSE d[x]]

\* The concrete tables a reduction looks into are model.spc_cards without
\* SPCADD and SPCOFF (here spc, spc1) and model.load_cards without LOAD and
\* LSEQ (here force).
\* SPCADD.get_spcs_by_spc_id: per spc id, one slice of every table carrying
\* it, the tables taken in the order of spc_cards
get_spcs_by_spc_id(m) ==
    [x \in Range(m.spc.spc_id) \cup Range(m.spc1.spc_id) |->
        (IF x \in Range(m.spc.spc_id)
         THEN <<SPC_slice_card_by_index(m.spc, RowsIn(m.spc.spc_id, <<x>>))>> ELSE <<>>)
        \o (IF x \in Range(m.spc1.spc_id)
            THEN <<SPC1_slice_card_by_index(m.spc1, RowsIn(m.spc1.spc_id, <<x>>))>>
            ELSE <<>>)]

\* the (row, referenced id) pairs of an aggregate table in iteration order;
\* zip stops at the shorter of the id column and idim
ADD_Refs(t) ==
    LET idim == ADD_idim(t)
    IN Flatten([k \in 1..Min(Len(t.sid), Len(idim)) |->
                  [j \in 1..(Len(PySlice(t.sids, idim[k][1], idim[k][2]))) |->
                      <<k, PySlice(t.sids, idim[k][1], idim[k][2])[j]>>]])

\* SPCADD.get_reduced_spcs(stop_on_failure): the flag is overwritten with True
\* on entry; a referenced id that is no key of the plain dict raises KeyError
\* at the lookup, before the check that logs.
get_reduced_spcs(m, stop_on_failure) ==
    LET stop == TRUE
        spc_by_spc_id == get_spcs_by_spc_id(m)
        t == m.spcadd
        refs == ADD_Refs(t)
        Fails(r) == \/ refs[r][2] \notin DOMAIN spc_by_spc_id
                    \/ Len(spc_by_spc_id[refs[r][2]]) = 0 /\ stop
        failing == {r \in 1..Len(refs) : Fails(r)}
        first == CHOOSE r \in failing : \A q \in failing : r <= q
        idim == ADD_idim(t)
        nrows == Min(Len(t.sid), Len(idim))
        LastRow(sid) == CHOOSE k \in 1..nrows :
                           t.sid[k] = sid /\ \A q \in 1..nrows : t.sid[q] = sid => q <= k
    IN IF failing # {}
       THEN [err |-> IF refs[first][2] \notin DOMAIN spc_by_spc_id THEN "KeyError"
                     ELSE "RuntimeError",
             named |-> {refs[first][2]}, log |-> {}, out |-> <<>>]
       ELSE [err |-> "", named |-> {}, log |-> {},
             out |-> [sid \in {t.sid[k] : k \in 1..nrows} |->
                        LET sub == PySlice(t.sids, idim[LastRow(sid)][1],
                                           idim[LastRow(sid)][2])
                        IN [j \in 1..Len(sub) |-> spc_by_spc_id[sub[j]]]]]

\* get_loads_by_load_id: per load id, one slice of every non-empty concrete
\* load table carrying it
get_loads_by_load_id(m) ==
    IF m.force.n = 0 THEN <<>>
    ELSE [x \in Range(m.force.load_id) |->
             <<Load_slice_card_by_load_id(m.force, <<x>>).t>>]

\* one LOAD row of get_reduced_loads: st = [reduced, log, err, named]
RECURSIVE ReduceRefs(_, _, _, _, _, _, _, _)
ReduceRefs(acc, scale_factors, load_ids, by, reduced, sid, filter, stop) ==
    IF load_ids = <<>> \/ scale_factors = <<>> \/ acc.err # "" THEN acc
    ELSE LET scale_factor == Head(scale_factors)
             load_id == Head(load_ids)
             next ==
                IF scale_factor = 0 /\ filter THEN acc
                ELSE IF load_id \in DOMAIN by
                THEN IF Len(by[load_id]) = 0 /\ stop
                     THEN [acc EXCEPT !.err = "RuntimeError", !.named = {load_id},
                                      !.log = @ \cup {<<"error", load_id, "No referenced loads found">>}]
                     ELSE [acc EXCEPT !.found = Append(@, <<scale_factor, by[load_id]>>)]
                ELSE IF load_id \in DOMAIN reduced
                THEN [acc EXCEPT !.log = @ \cup {<<"warning", load_id, "references another LOAD">>}]
                ELSE [acc EXCEPT !.log = @ \cup {<<"warning", load_id, "cannot find load_id">>}]
         IN ReduceRefs(next, Tail(scale_factors), Tail(load_ids), by, reduced, sid,
                       filter, stop)

RECURSIVE ReduceRows(_, _, _, _, _, _)
ReduceRows(st, k, load, by, filter, stop) ==
    LET iload == LOAD_iload(load)
        nrows == Min(Len(load.load_id), Min(Len(load.scale_factors), Len(iload)))
    IN IF k > nrows \/ st.err # "" THEN st
       ELSE LET sid == load.load_id[k]
                global_scale == load.scale_factors[k]
                sub_factors == PySlice(load.scale_factors, iload[k][1], iload[k][2])
                scale_factors == [j \in 1..Len(sub_factors) |-> global_scale * sub_factors[j]]
                load_ids == PySlice(load.load_ids, iload[k][1], iload[k][2])
                row == ReduceRefs([found |-> <<>>, log |-> st.log, err |-> "", named |-> {}],
                                  scale_factors, load_ids, by, st.reduced, sid, filter, stop)
                next ==
                   IF global_scale = 0 /\ filter THEN st
                   ELSE IF row.err # ""
                   THEN [st EXCEPT !.err = row.err, !.named = row.named, !.log = row.log]
                   ELSE IF Len(row.found) = 0 THEN [st EXCEPT !.log = row.log]
                   ELSE [st EXCEPT !.log = row.log,
                                   !.reduced = DictSet(@, sid, row.found)]
            IN ReduceRows(next, k + 1, load, by, filter, stop)

\* get_reduced_loads(load, remove_missing_loads, filter_zero_scale_factors,
\* stop_on_failure): the flag is overwritten with True on entry; the row's
\* global scale is read from scale_factors; an id found nowhere is logged as
\* a warning; the ids no LOAD row is keyed by are added with scale 1.
get_reduced_loads(m, load, remove_missing_loads, filter_zero_scale_factors, stop_on_failure) ==
    IF load.n = 0 THEN [err |-> "", named |-> {}, log |-> {}, out |-> <<>>]
    ELSE LET stop == TRUE
             loads_by_load_id == get_loads_by_load_id(m)
             st == ReduceRows([reduced |-> <<>>, log |-> {}, err |-> "", named |-> {}],
                              1, load, loads_by_load_id, filter_zero_scale_factors, stop)
             unreferenced == (DOMAIN loads_by_load_id) \ (DOMAIN st.reduced)
         IN IF st.err # "" THEN [err |-> st.err, named |-> st.named, log |-> st.log,
                                  out |-> <<>>]
            ELSE [err |-> "", named |-> {}, log |-> st.log,
                  out |-> [x \in (DOMAIN st.reduced) \cup unreferenced |->
                             IF x \in DOMAIN st.reduced THEN st.reduced[x]
                             ELSE <<<<1, loads_by_load_id[x]>>>>]]

\* LOAD.get_reduced_loads passes its flags on
LOAD_get_reduced_loads(m, remove_missing_loads, filter_zero_scale_factors, stop_on_failure) ==
    get_reduced_loads(m, m.load, remove_missing_loads, filter_zero_scale_factors,
                      stop_on_failure)

\* ------------------------------------------- a deck with aggregates, reduced
MaxAggregates == 2
MaxConcrete == 1

ReduceKinds == {"get_reduced_spcs", "get_reduced_loads"}
\* referenced ids: those a concrete card may carry and one carried by none
RefLists == SeqsUpTo(LookupIds, 1, 2)
DeckNodes == {<<1>>, <<1, 2>>}

ReduceInit ==
    /\ model = NewModel
    /\ kind \in ReduceKinds
    /\ raised = ""
    /\ hist = <<>>
    /\ phase = "staging"
    /\ nparse = 0
    /\ result = NoResult

\* the cards of a deck are added table by table
Deck(k) == kind = k /\ raised = "" /\ phase = "staging"
Empty(t) == t.n = 0 /\ t.cards = <<>>

Deck_SPCADD ==
    /\ Deck("get_reduced_spcs")
    /\ Len(model.spcadd.cards) < MaxAggregates
    /\ Empty(model.spc) /\ Empty(model.spc1)
    /\ \E sid \in AggregateIds, sets \in RefLists :
          Staged(<<"SPCADD", sid, sets>>, [model EXCEPT !.spcadd = ADD_add(@, sid, sets)])

Deck_SPC ==
    /\ Deck("get_reduced_spcs")
    /\ Len(model.spc.cards) < MaxConcrete
    /\ Empty(model.spc1)
    /\ \E spc_id \in Ids, nodes \in DeckNodes, c \in Components, enforced \in Enforced :
          Staged(<<"SPC", spc_id, nodes>>,
                 [model EXCEPT !.spc = SPC_add(@, spc_id, nodes, Repeat(c, Len(nodes)),
                                               enforced)])

Deck_SPC1 ==
    /\ Deck("get_reduced_spcs")
    /\ Len(model.spc1.cards) < MaxConcrete
    /\ \E spc_id \in Ids, c \in Components, nodes \in DeckNodes :
          Staged(<<"SPC1", spc_id, nodes>>,
                 [model EXCEPT !.spc1 = SPC1_add(@, spc_id, c, nodes)])

Deck_LOAD ==
    /\ Deck("get_reduced_loads")
    /\ Len(model.load.cards) < MaxAggregates
    /\ Empty(model.force)
    /\ \E sid \in AggregateIds, scale \in Scales, load_ids \in RefLists :
          Staged(<<"LOAD", sid, load_ids>>,
                 [model EXCEPT !.load = LOAD_add(@, sid, scale, Repeat(1, Len(load_ids)),
                                                 load_ids)])

Deck_FORCE ==
    /\ Deck("get_reduced_loads")
    /\ Len(model.force.cards) < MaxAggregates
    /\ \E sid \in Ids, node \in Ids, xyz \in Directions :
          Staged(<<"FORCE", sid, node>>,
                 [model EXCEPT !.force = Load0_add(@, sid, node, 1, xyz, 0)])

\* parse_cards on every table of the deck, one after the other
Deck_ParseCards ==
    /\ raised = "" /\ phase = "staging"
    /\ LET spcadd == ADD_parse_cards(model.spcadd)
           spc == SPC_parse_cards(model.spc)
           spc1 == SPC1_parse_cards(model.spc1)
           load == LOAD_parse_cards(model.load)
           force == Load0_parse_cards(model.force)
           errs == SelectSeq(<<spcadd.err, spc.err, spc1.err, load.err, force.err>>,
                             LAMBDA e : e # "")
       IN /\ model' = [model EXCEPT !.spcadd = spcadd.t, !.spc = spc.t, !.spc1 = spc1.t,
                                    !.load = load.t, !.force = force.t]
          /\ raised' = IF errs = <<>> THEN "" ELSE Head(errs)
          /\ phase' = IF errs = <<>> THEN "parsed" ELSE "failed"
          /\ nparse' = nparse + 1
    /\ UNCHANGED <<kind, hist, result>>

Reduced(stop_on_failure, r) ==
    /\ result' = [tag |-> kind, stop_on_failure |-> stop_on_failure, out |-> r.out,
                  log |-> r.log, named |-> r.named]
    /\ raised' = r.err
    /\ phase' = "reduced"
    /\ UNCHANGED <<model, kind, hist, nparse>>

GetReducedSpcs ==
    /\ kind = "get_reduced_spcs" /\ raised = "" /\ phase = "parsed"
    /\ \E stop_on_failure \in BOOLEAN :
          Reduced(stop_on_failure, get_reduced_spcs(model, stop_on_failure))

GetReducedLoads ==
    /\ kind = "get_reduced_loads" /\ raised = "" /\ phase = "parsed"
    /\ \E stop_on_failure \in BOOLEAN, filter_zero_scale_factors \in BOOLEAN :
          Reduced(stop_on_failure,
                  LOAD_get_reduced_loads(model, FALSE, filter_zero_scale_factors,
                                         stop_on_failure))

ReduceNext ==
    \/ Deck_SPCADD \/ Deck_SPC \/ Deck_SPC1
    \/ Deck_LOAD \/ Deck_FORCE
    \/ Deck_ParseCards
    \/ GetReducedSpcs \/ GetReducedLoads

SpecReduce == ReduceInit /\ [][ReduceNext]_vars

\* ------------------------------------------ SpecLoads: LOAD rows, combined
\* LOAD rows with their own scale and per-member scale factors over FORCE
\* rows, reduced through LOAD.get_reduced_loads and
\* LOAD.get_reduced_load_by_load_id.

\* Load.slice_card_by_load_id on the LOAD table
LOAD_slice_card_by_load_id(t, load_id) ==
    LET index == RowsIn(t.load_id, load_id)
    IN IF Len(t.load_id) = 0 THEN [t |-> NewLOAD, err |-> "AssertionError"]
       ELSE IF Len(index) = 0 THEN [t |-> NewLOAD, err |-> "AssertionError"]
       ELSE [t |-> LOAD_slice_card_by_index(t, index), err |-> ""]

\* LOAD.get_reduced_load_by_load_id: the row is sliced out and reduced with
\* get_reduced_loads(load), the caller's three flags not passed on
LOAD_get_reduced_load_by_load_id(m, load_id, remove_missing_loads, filter_zero_scale_factors, stop_on_failure) ==
    LET load == LOAD_slice_card_by_load_id(m.load, <<load_id>>)
    IN IF load.err # "" THEN [err |-> load.err, named |-> {}, log |-> {}, out |-> <<>>]
       ELSE get_reduced_loads(m, load.t, FALSE, FALSE, TRUE)

LoadScales == {0, 2}
MemberScales == {0, 1, 3}
MemberIds == Ids \cup AggregateIds
\* member lists (scale_factors, load_ids): every single member, and two lists
\* of two members
Members ==
    {<<<<f>>, <<l>>>> : f \in MemberScales, l \in MemberIds}
        \cup {<<<<1, 3>>, <<1, 2>>>>, <<<<3, 0>>, <<2, 1>>>>}

LoadsInit ==
    /\ model = NewModel
    /\ kind = "LOAD"
    /\ raised = ""
    /\ hist = <<>>
    /\ phase = "staging"
    /\ nparse = 0
    /\ result = NoResult

Loads_LOAD ==
    /\ raised = "" /\ phase = "staging"
    /\ Len(model.load.cards) < MaxAggregates
    /\ Empty(model.force)
    /\ \E sid \in AggregateIds, scale \in LoadScales, mem \in Members :
          Staged(<<"LOAD", sid, mem[2], scale, mem[1]>>,
                 [model EXCEPT !.load = LOAD_add(@, sid, scale, mem[1], mem[2])])

Loads_FORCE ==
    /\ raised = "" /\ phase = "staging"
    /\ Len(model.force.cards) < MaxAggregates
    /\ \E sid \in Ids, xyz \in Directions :
          Staged(<<"FORCE", sid, 1>>,
                 [model EXCEPT !.force = Load0_add(@, sid, 1, 1, xyz, 0)])

Loads_ParseCards ==
    /\ raised = "" /\ phase = "staging"
    /\ LET load == LOAD_parse_cards(model.load)
           force == Load0_parse_cards(model.force)
       IN /\ model' = [model EXCEPT !.load = load.t, !.force = force.t]
          /\ raised' = IF load.err # "" THEN load.err ELSE force.err
          /\ phase' = IF load.err = "" /\ force.err = "" THEN "parsed" ELSE "failed"
          /\ nparse' = nparse + 1
    /\ UNCHANGED <<kind, hist, result>>

LoadsReduced(tag, load_id, filter, stop_on_failure, r) ==
    /\ result' = [tag |-> tag, load_id |-> load_id, filter_zero_scale_factors |-> filter,
                  stop_on_failure |-> stop_on_failure, out |-> r.out, log |-> r.log,
                  named |-> r.named]
    /\ raised' = r.err
    /\ phase' = "reduced"
    /\ UNCHANGED <<model, kind, hist, nparse>>

Loads_GetReducedLoads ==
    /\ raised = "" /\ phase = "parsed"
    /\ \E filter \in BOOLEAN :
          LoadsReduced("get_reduced_loads", 0, filter, TRUE,
                       LOAD_get_reduced_loads(model, FALSE, filter, TRUE))

Loads_GetReducedLoadByLoadId ==
    /\ raised = "" /\ phase = "parsed"
    /\ \E load_id \in AggregateIds, filter \in BOOLEAN :
          LoadsReduced("get_reduced_load_by_load_id", load_id, filter, TRUE,
                       LOAD_get_reduced_load_by_load_id(model, load_id, FALSE, filter, TRUE))

LoadsNext ==
    \/ Loads_LOAD \/ Loads_FORCE \/ Loads_ParseCards
    \/ Loads_GetReducedLoads \/ Loads_GetReducedLoadByLoadId

SpecLoads == LoadsInit /\ [][LoadsNext]_vars

\* ------------------- SpecStaticLoad: get_reduced_static_load_from_load_id
\* The deck of SpecLoads, asked for the static loads of one load id.

\* model.load_cards: the load tables the function walks, with their types
\* (of the concrete load tables the FORCE table is the one populated here)
load_cards(m) == <<[type |-> "LOAD", t |-> m.load], [type |-> "FORCE", t |-> m.force]>>

\* the else branch: one (1.0, slice) entry per non-empty table that is no
\* LOAD or LSEQ, the slice made by the table's slice_card_by_load_id
RECURSIVE SliceLoadCards(_, _, _)
SliceLoadCards(cards, load_id, acc) ==
    IF cards = <<>> \/ acc.err # "" THEN acc
    ELSE LET load == Head(cards)
             loadi == Load_slice_card_by_load_id(load.t, <<load_id>>)
             next ==
                IF load.t.n = 0 THEN acc
                ELSE IF load.type \in {"LOAD", "LSEQ"} THEN acc
                ELSE IF loadi.err # "" THEN [acc EXCEPT !.err = loadi.err]
                ELSE [acc EXCEPT !.out = Append(@, <<1, loadi.t>>)]
         IN SliceLoadCards(Tail(cards), load_id, next)

\* get_reduced_static_load_from_load_id(model, load_id, ...): for the id of a
\* LOAD row the reduction is made and its value dropped
get_reduced_static_load_from_load_id(m, load_id, remove_missing_loads, filter_zero_scale_factors, stop_on_failure) ==
    IF m.load.n # 0 /\ load_id \in Range(m.load.load_id)
    THEN LET r == LOAD_get_reduced_load_by_load_id(m, load_id, remove_missing_loads,
                                                   filter_zero_scale_factors, stop_on_failure)
         IN [err |-> r.err, out |-> <<>>]
    ELSE SliceLoadCards(load_cards(m), load_id, [err |-> "", out |-> <<>>])

StaticLoad_GetReduced ==
    /\ raised = "" /\ phase = "parsed"
    /\ \E load_id \in Ids \cup AggregateIds :
          LET r == get_reduced_static_load_from_load_id(model, load_id, FALSE, FALSE, TRUE)
          IN /\ result' = [tag |-> "get_reduced_static_load_from_load_id",
                           load_id |-> load_id, out |-> r.out]
             /\ raised' = r.err
             /\ phase' = "reduced"
    /\ UNCHANGED <<model, kind, hist, nparse>>

StaticLoadNext ==
    \/ Loads_LOAD \/ Loads_FORCE \/ Loads_ParseCards \/ StaticLoad_GetReduced

SpecStaticLoad == LoadsInit /\ [][StaticLoadNext]_vars

\* --------------------------------- SpecAggregate: aggregate rows, staged, parsed
\* SPCADD and LOAD rows staged through add and through add_card, with member
\* lists of zero, one or two members, then committed by parse_cards.

\* ADD.add_card: the set ids are the fields from 2 on, made unique and sorted
ADD_add_card_err(card) ==
    IF ~integer_ok(card, 1) THEN "SyntaxError"
    ELSE IF Len(card) <= 2 THEN "AssertionError"
    ELSE ""
ADD_add_card(t, card) ==
    LET sets == Unique([j \in 1..(Len(card) - 2) |-> Field(card, j + 1)[2]])
    IN [t EXCEPT !.cards = Append(@, <<integer(card, 1), sets>>), !.n = @ + 1]

\* LOAD.add_card: sid, scale, then (scale factor, load id) pairs; a card with
\* an odd number of fields after the scale, or with none, fails an assertion
LOAD_add_card_err(card) ==
    IF ~integer_ok(card, 1) \/ ~double_ok(card, 2) THEN "SyntaxError"
    ELSE IF (Len(card) - 3) % 2 # 0 THEN "AssertionError"
    ELSE IF \E j \in 0..((Len(card) - 3) \div 2 - 1) :
               ~double_ok(card, 2 * j + 3) \/ ~integer_ok(card, 2 * j + 4)
    THEN "SyntaxError"
    ELSE IF Len(card) <= 3 THEN "AssertionError"
    ELSE ""
LOAD_add_card(t, card) ==
    LET npairs == (Len(card) - 3) \div 2
        scale_factors == [j \in 1..npairs |-> double(card, 2 * (j - 1) + 3)]
        load_ids == [j \in 1..npairs |-> integer(card, 2 * (j - 1) + 4)]
    IN [t EXCEPT !.cards = Append(@, <<integer(card, 1), double(card, 2), scale_factors,
                                       load_ids>>),
                 !.n = @ + 1]

AggregateKinds == {"SPCADD", "LOAD"}
\* member lists of zero, one or two ids; LOAD members all with scale factor 1
MemberLists == SeqsUpTo(Ids, 0, 2)
SPCADD_Card(sid, sets) ==
    print_card(<<StrField("SPCADD"), IntField(sid)>> \o [j \in 1..Len(sets) |-> IntField(sets[j])])
LOAD_Card(sid, scale, load_ids) ==
    print_card(<<StrField("LOAD"), IntField(sid), RealField(scale)>>
               \o Flatten([j \in 1..Len(load_ids) |-> <<RealField(1), IntField(load_ids[j])>>]))

AggregateInit ==
    /\ model = NewModel
    /\ kind \in AggregateKinds
    /\ raised = ""
    /\ hist = <<>>
    /\ phase = "staging"
    /\ nparse = 0
    /\ result = NoResult

\* add_card: err is the exception the card raises, "" when it is staged
CardStaged(args, err, m) ==
    /\ model' = IF err = "" THEN m ELSE model
    /\ hist' = Append(hist, args)
    /\ raised' = err
    /\ phase' = IF err = "" THEN "staging" ELSE "failed"
    /\ UNCHANGED <<kind, nparse, result>>

Aggregate_SPCADD_Add ==
    /\ CanAdd("SPCADD")
    /\ \E sid \in AggregateIds, sets \in MemberLists :
          Staged(<<"add", sid, sets>>, [model EXCEPT !.spcadd = ADD_add(@, sid, sets)])

Aggregate_SPCADD_AddCard ==
    /\ CanAdd("SPCADD")
    /\ \E sid \in AggregateIds, sets \in MemberLists :
          LET card == SPCADD_Card(sid, sets)
          IN CardStaged(<<"add_card", sid, sets>>, ADD_add_card_err(card),
                        [model EXCEPT !.spcadd = ADD_add_card(@, card)])

Aggregate_SPCADD_ParseCards ==
    /\ CanParse("SPCADD")
    /\ LET r == ADD_parse_cards(model.spcadd)
       IN Parsed([model EXCEPT !.spcadd = r.t], model.spcadd, r)

Aggregate_LOAD_Add ==
    /\ CanAdd("LOAD")
    /\ \E sid \in AggregateIds, scale \in Scales, load_ids \in MemberLists :
          Staged(<<"add", sid, load_ids>>,
                 [model EXCEPT !.load = LOAD_add(@, sid, scale, Repeat(1, Len(load_ids)),
                                                 load_ids)])

Aggregate_LOAD_AddCard ==
    /\ CanAdd("LOAD")
    /\ \E sid \in AggregateIds, scale \in Scales, load_ids \in MemberLists :
          LET card == LOAD_Card(sid, scale, load_ids)
          IN CardStaged(<<"add_card", sid, load_ids>>, LOAD_add_card_err(card),
                        [model EXCEPT !.load = LOAD_add_card(@, card)])

Aggregate_LOAD_ParseCards ==
    /\ CanParse("LOAD")
    /\ LET r == LOAD_parse_cards(model.load)
       IN Parsed([model EXCEPT !.load = r.t], model.load, r)

AggregateNext ==
    \/ Aggregate_SPCADD_Add \/ Aggregate_SPCADD_AddCard \/ Aggregate_SPCADD_ParseCards
    \/ Aggregate_LOAD_Add \/ Aggregate_LOAD_AddCard \/ Aggregate_LOAD_ParseCards

SpecAggregate == AggregateInit /\ [][AggregateNext]_vars

\* ------------------------------------------------ SpecRoundTrip: write, re-read
\* One table of one kind is populated through add and parse_cards, written with
\* write_file, and the cards written are read into a table of a second model
\* with add_card and parse_cards.  result holds the cards still to read and
\* that second table.
RoundTripKinds == {"FORCE2", "MAT8", "ACCEL"}
DirectionNodes == [1..4 -> Ids]
ShearModuli == {1, 2, G1ZDefault}
AccelVectors == {<<0, 0, 1>>}
AccelCurves == {<<<<0>>, <<1>>>>, <<<<0>>, <<2>>>>, <<<<1>>, <<2>>>>,
                <<<<0, 1>>, <<1, 2>>>>, <<<<0, 1>>, <<2, 2>>>>}

RoundTripInit ==
    /\ model = NewModel
    /\ kind \in RoundTripKinds
    /\ raised = ""
    /\ hist = <<>>
    /\ phase = "staging"
    /\ nparse = 0
    /\ result = NoResult

CanWrite(k) == kind = k /\ raised = "" /\ phase = "parsed"
CanRead(k) == kind = k /\ raised = "" /\ phase = "written" /\ result.lines # <<>>
CanReparse(k) == kind = k /\ raised = "" /\ phase = "written" /\ result.lines = <<>>

\* write_file: the cards written, and the empty table of the model that will
\* read them
Written(lines, new) ==
    /\ result' = [tag |-> "file", lines |-> lines, t |-> new]
    /\ phase' = "written"
    /\ UNCHANGED <<model, kind, raised, hist, nparse>>

\* add_card of the next card written: a field the reader rejects raises
ReadCard(ok, t) ==
    /\ IF ok THEN /\ result' = [result EXCEPT !.lines = Tail(@), !.t = t]
                  /\ raised' = ""
             ELSE /\ result' = result
                  /\ raised' = "SyntaxError"
    /\ UNCHANGED <<model, kind, hist, phase, nparse>>

\* parse_cards of the table that was read
Reparsed(r) ==
    /\ result' = [tag |-> "reread", lines |-> <<>>, t |-> r.t]
    /\ raised' = r.err
    /\ phase' = "reread"
    /\ UNCHANGED <<model, kind, hist, nparse>>

FORCE2_Add ==
    /\ CanAdd("FORCE2")
    /\ \E sid \in Ids, g \in DirectionNodes :
          Staged(<<sid, 1, 1, g>>,
                 [model EXCEPT !.force2 = Load2_add(@, sid, 1, 1, g[1], g[2], g[3], g[4])])

FORCE2_ParseCards ==
    /\ CanParse("FORCE2")
    /\ LET r == Load2_parse_cards(model.force2)
       IN Parsed([model EXCEPT !.force2 = r.t], model.force2, r)

FORCE2_WriteFile ==
    /\ CanWrite("FORCE2")
    /\ Written(Load2_write_file(model.force2, "FORCE2"), NewLoad2)

FORCE2_AddCard ==
    /\ CanRead("FORCE2")
    /\ LET card == Head(result.lines)
       IN ReadCard(Load2_add_card_ok(card), Load2_add_card(result.t, card))

FORCE2_Reparse ==
    /\ CanReparse("FORCE2")
    /\ Reparsed(Load2_parse_cards(result.t))

MAT8_Add ==
    /\ CanAdd("MAT8")
    /\ \E mid \in Ids, g1z \in ShearModuli, g2z \in ShearModuli :
          Staged(<<mid, g1z, g2z>>,
                 [model EXCEPT !.mat8 = MAT8_add(@, mid, 1, 1, 0, 0, g1z, g2z, 0, 0, 0, 0,
                                                 0, 0, 0, 0, 0, 0)])

MAT8_ParseCards ==
    /\ CanParse("MAT8")
    /\ \E r \in MAT8_parse_cards(model.mat8) :
          Parsed([model EXCEPT !.mat8 = r.t], model.mat8, r)

MAT8_WriteFile ==
    /\ CanWrite("MAT8")
    /\ Written(MAT8_write_file(model.mat8), NewMAT8)

MAT8_AddCard ==
    /\ CanRead("MAT8")
    /\ LET card == Head(result.lines)
       IN ReadCard(MAT8_add_card_ok(card), MAT8_add_card(result.t, card))

MAT8_Reparse ==
    /\ CanReparse("MAT8")
    /\ \E r \in MAT8_parse_cards(result.t) : Reparsed(r)

ACCEL_Add ==
    /\ CanAdd("ACCEL")
    /\ \E sid \in Ids, N \in AccelVectors, curve \in AccelCurves :
          Staged(<<sid, curve[1], curve[2]>>,
                 [model EXCEPT !.accel = ACCEL_add(@, sid, N, "X", curve[1], curve[2], 0)])

ACCEL_ParseCards ==
    /\ CanParse("ACCEL")
    /\ LET r == ACCEL_parse_cards(model.accel)
       IN Parsed([model EXCEPT !.accel = r.t], model.accel, r)

ACCEL_WriteFile ==
    /\ CanWrite("ACCEL")
    /\ Written(ACCEL_write_file(model.accel), NewACCEL)

ACCEL_AddCard ==
    /\ CanRead("ACCEL")
    /\ LET card == Head(result.lines)
       IN ReadCard(ACCEL_add_card_ok(card), ACCEL_add_card(result.t, card))

ACCEL_Reparse ==
    /\ CanReparse("ACCEL")
    /\ Reparsed(ACCEL_parse_cards(result.t))

RoundTripNext ==
    \/ FORCE2_Add \/ FORCE2_ParseCards \/ FORCE2_WriteFile \/ FORCE2_AddCard
    \/ FORCE2_Reparse
    \/ MAT8_Add \/ MAT8_ParseCards \/ MAT8_WriteFile \/ MAT8_AddCard \/ MAT8_Reparse
    \/ ACCEL_Add \/ ACCEL_ParseCards \/ ACCEL_WriteFile \/ ACCEL_AddCard \/ ACCEL_Reparse

SpecRoundTrip == RoundTripInit /\ [][RoundTripNext]_vars

\* ------------------------------------------------- SpecWrite: tables written
\* A table of one kind is populated through add and parse_cards and written
\* with write_file(size).  A written card is the list of its fields, each with
\* the width it is printed at; result holds the cards and the size asked for.

\* the largest integer an 8-character field holds, and the first id beyond it
MaxSmallField == 99999999
LargeId == MaxSmallField + 1

\* update_field_size(max_int, size): 16 when the largest id needs it
update_field_size(max_int, size) == IF size = 8 /\ max_int > MaxSmallField THEN 16 ELSE size

\* print_card_8 / print_card_16 on a list of fields: every field printed at
\* the card's width; an integer of more than 8 digits is no 8-character field
\* and print_card_8 raises on it
FieldFits(size, field) == size = 16 \/ field[1] # "int" \/ field[2] <= MaxSmallField
print_card_8_16(size, list_fields) ==
    LET fields == print_card(list_fields)
    IN IF \A k \in 1..Len(fields) : FieldFits(size, fields[k])
       THEN [card |-> [k \in 1..Len(fields) |-> [width |-> size, field |-> fields[k]]],
             err |-> ""]
       ELSE [card |-> <<>>, err |-> "RuntimeError"]

\* the cards of a write_file loop: all of them, or the first error raised
WrittenCards(cards) ==
    IF \E k \in 1..Len(cards) : cards[k].err # ""
    THEN [lines |-> <<>>, err |-> "RuntimeError"]
    ELSE [lines |-> [k \in 1..Len(cards) |-> cards[k].card], err |-> ""]

MaxOf(a) == CHOOSE x \in Range(a) : \A y \in Range(a) : y <= x

\* SET1.write_file: the width follows the largest set id only
SET1_write_file(t, size) ==
    IF Len(t.set_id) = 0 THEN [lines |-> <<>>, err |-> ""]
    ELSE IF ~make_idim_ok(t.n, t.num_ids) THEN [lines |-> <<>>, err |-> "ValueError"]
    ELSE LET size2 == update_field_size(MaxOf(t.set_id), size)
             inid == SET1_inid(t)
             nrows == Min(Len(t.set_id), Min(Len(t.is_skin), Len(inid)))
         IN WrittenCards(
               [k \in 1..nrows |->
                   LET ids == PySlice(t.ids, inid[k][1], inid[k][2])
                   IN print_card_8_16(size2,
                         <<StrField("SET1"), IntField(t.set_id[k])>>
                         \o (IF t.is_skin[k] THEN <<StrField("SKIN")>> ELSE <<>>)
                         \o [j \in 1..Len(ids) |-> IntField(ids[j])])])

\* SPC1.write_file: the width is the size asked for
SPC1_write_file(t, size) ==
    IF Len(t.spc_id) = 0 THEN [lines |-> <<>>, err |-> ""]
    ELSE IF ~make_idim_ok(t.n, t.nnodes) THEN [lines |-> <<>>, err |-> "ValueError"]
    ELSE LET inode == SPC1_inode(t)
             nrows == Min(Len(t.spc_id), Min(Len(t.components), Len(inode)))
             rows == [k \in 1..nrows |-> PySlice(t.node_id, inode[k][1], inode[k][2])]
         IN IF \E k \in 1..nrows : Len(rows[k]) = 0
            THEN [lines |-> <<>>, err |-> "AssertionError"]
            ELSE WrittenCards(
                    [k \in 1..nrows |->
                        print_card_8_16(size,
                            <<StrField("SPC1"), IntField(t.spc_id[k]),
                              array_default_int(t.components[k], 0)>>
                            \o [j \in 1..Len(rows[k]) |-> IntField(rows[k][j])])])

\* MPCADD.is_small_field and MPCADD.write_file: 8-character fields only when
\* asked for and every id, own or referenced, is below 99,999,999
MPCADD_is_small_field(t) == MaxOf(t.sid \o t.sids) < MaxSmallField
MPCADD_write_file(t, size) ==
    IF Len(t.sid) = 0 THEN [lines |-> <<>>, err |-> ""]
    ELSE IF ~make_idim_ok(t.n, t.nsids) THEN [lines |-> <<>>, err |-> "ValueError"]
    ELSE LET size2 == IF size = 8 /\ MPCADD_is_small_field(t) THEN 8 ELSE 16
             idim == ADD_idim(t)
             nrows == Min(Len(t.sid), Len(idim))
         IN WrittenCards(
               [k \in 1..nrows |->
                   LET mpc_idsi == PySlice(t.sids, idim[k][1], idim[k][2])
                   IN print_card_8_16(size2,
                         <<StrField("MPCADD"), IntField(t.sid[k])>>
                         \o [j \in 1..Len(mpc_idsi) |-> IntField(mpc_idsi[j])])])

\* get_G_default(E, G, nu): G itself when G or nu is zero, else E / (2 (1 + nu))
get_G_default(E, G, nu) == IF G = 0 \/ nu = 0 THEN G ELSE E \div (2 * (1 + nu))

\* the fields of row k with every value printed as stored, nothing blanked:
\* what MAT1.write_file would emit without its defaults
MAT1_list_fields_unblanked(t, k) ==
    <<StrField("MAT1"), IntField(t.material_id[k]), RealField(t.E[k]), RealField(t.G[k]),
      RealField(t.nu[k]), RealField(t.rho[k]), RealField(t.alpha[k]), RealField(t.tref[k]),
      RealField(t.ge[k]), RealField(t.St[k]), RealField(t.Sc[k]), RealField(t.Ss[k]),
      IntField(t.mcsid[k])>>

\* MAT1.write_file: one card per row; G and the optional fields are blanked
\* when they hold their defaults, and the four trailing fields are left out
\* when all of them are zero.  zip_longest pads a short column with None, on
\* which get_G_default raises.
MAT1_list_fields(t, k) ==
    LET head == <<StrField("MAT1"), IntField(t.material_id[k]), RealField(t.E[k]),
                  set_blank_if_default(t.G[k], get_G_default(t.E[k], t.G[k], t.nu[k])),
                  RealField(t.nu[k]),
                  set_blank_if_default(t.rho[k], 0), set_blank_if_default(t.alpha[k], 0),
                  set_blank_if_default(t.tref[k], 0), set_blank_if_default(t.ge[k], 0)>>
    IN IF <<t.St[k], t.Sc[k], t.Ss[k], t.mcsid[k]>> = <<0, 0, 0, 0>> THEN head
       ELSE head \o <<set_blank_if_default(t.St[k], 0), set_blank_if_default(t.Sc[k], 0),
                      set_blank_if_default(t.Ss[k], 0), array_default_int(t.mcsid[k], 0)>>
MAT1_write_file(t, size) ==
    IF t.n = 0 THEN [lines |-> <<>>, err |-> ""]
    ELSE IF \E f \in MAT1Columns : Len(t[f]) # Len(t.material_id)
    THEN [lines |-> <<>>, err |-> "TypeError"]
    ELSE LET size2 == update_field_size(MaxOf(t.material_id \o t.mcsid), size)
         IN WrittenCards([k \in 1..Len(t.material_id) |->
                             print_card_8_16(size2, MAT1_list_fields(t, k))])

\* the keys of a in the order each is first seen (the key order of a dict
\* filled row by row)
FirstSeen(a) ==
    Take(a, SetToSortedSeq({k \in 1..Len(a) : \A j \in 1..(k - 1) : a[j] # a[k]}))

\* the cards a writer cuts a group's fields into: a card is written as soon as
\* it holds per entries, and the entries left over are written at the end when
\* there are any, or whatever is left when always is set
Chunks(entries, per, always) ==
    LET full == Len(entries) \div per
        rest == SubSeq(entries, full * per + 1, Len(entries))
    IN [c \in 1..full |-> SubSeq(entries, (c - 1) * per + 1, c * per)]
       \o (IF rest # <<>> \/ always THEN <<rest>> ELSE <<>>)

\* SUPORT.write_file: rows grouped by suport_id in a dict; id 0 is written as
\* SUPORT cards of four (node, component) pairs, closed with the pairs left
\* over if there are any; another id as SUPORT1 cards of three pairs, closed
\* with what is left, the test for which (len(list_fields)) is always true
SUPORT_pairs(t, suport_id) ==
    LET rows == RowsIn(t.suport_id, <<suport_id>>)
    IN [k \in 1..Len(rows) |-> <<IntField(t.node_id[rows[k]]), IntField(t.component[rows[k]])>>]
SUPORT_group_cards(t, suport_id) ==
    LET head == IF suport_id = 0 THEN <<StrField("SUPORT")>>
                ELSE <<StrField("SUPORT1"), IntField(suport_id)>>
        chunks == IF suport_id = 0 THEN Chunks(SUPORT_pairs(t, suport_id), 4, FALSE)
                  ELSE Chunks(SUPORT_pairs(t, suport_id), 3, TRUE)
    IN [c \in 1..Len(chunks) |-> head \o Flatten(chunks[c])]
SUPORT_write_file(t, size) ==
    IF t.n = 0 THEN [lines |-> <<>>, err |-> ""]
    ELSE LET size2 == update_field_size(MaxOf(t.node_id), size)
             keys == FirstSeen(t.suport_id)
             cards == Flatten([g \in 1..Len(keys) |-> SUPORT_group_cards(t, keys[g])])
         IN WrittenCards([c \in 1..Len(cards) |-> print_card_8_16(size2, cards[c])])

\* ------------------------------------------------- ABCOQSET (ASET) and USET

\* ABCOQSET.add_set1: a list of nodes under one component
ABCOQSET_add_set1(t, nids, component) ==
    LET nids2 == expand_thru(nids)
    IN [t EXCEPT !.cards = Append(@, <<nids2, Repeat(component, Len(nids2))>>),
                 !.n = @ + Len(nids2)]

ABCOQSET_save(t, node_id, component) ==
    LET stack == Len(t.node_id) # 0
        node_id2 == IF stack THEN t.node_id \o node_id ELSE node_id
    IN [t EXCEPT !.node_id = node_id2,
                 !.component = IF stack THEN t.component \o component ELSE component,
                 !.n = Len(node_id2)]

ABCOQSET_apply_slice(t, grid, i) ==
    [grid EXCEPT !.n = Len(i), !.node_id = Take(t.node_id, i),
                 !.component = Take(t.component, i)]

\* ABCOQSET.parse_cards: one row per node, sorted by node_id
ABCOQSET_parse_cards(t) ==
    IF ParseSkipped(t) THEN {[t |-> t, err |-> ""]}
    ELSE LET saved == ABCOQSET_save(t, Flatten(Column(t.cards, 1)), Flatten(Column(t.cards, 2)))
         IN {IF r.err = "" THEN [t |-> [r.t EXCEPT !.cards = <<>>], err |-> ""] ELSE r :
                r \in BaseSort(saved, saved.node_id,
                    [i \in Argsorts(saved.node_id) |->
                        [t |-> ABCOQSET_apply_slice(saved, saved, i), err |-> ""]])}

\* ABCOQSET.write_file for an ASET table: the nodes grouped by component in a
\* dict, one ASET1 card per component
ABCOQSET_write_file(t, size) ==
    IF t.n = 0 THEN [lines |-> <<>>, err |-> ""]
    ELSE LET size2 == update_field_size(MaxOf(t.node_id), size)
             comps == FirstSeen(t.component)
         IN WrittenCards(
               [g \in 1..Len(comps) |->
                   LET nids == Take(t.node_id, RowsIn(t.component, <<comps[g]>>))
                   IN print_card_8_16(size2,
                         <<StrField("ASET1"), IntField(comps[g])>>
                         \o [j \in 1..Len(nids) |-> IntField(nids[j])])])


USET_add_set1(t, name, nids, component) ==
    LET nids2 == expand_thru(nids)
    IN [t EXCEPT !.cards = Append(@, <<name, nids2, Repeat(component, Len(nids2))>>),
                 !.n = @ + Len(nids2)]

USET_save(t, name, node_id, component) ==
    LET stack == Len(t.node_id) # 0
        node_id2 == IF stack THEN t.node_id \o node_id ELSE node_id
    IN [t EXCEPT !.name = IF stack THEN t.name \o name ELSE name,
                 !.node_id = node_id2,
                 !.component = IF stack THEN t.component \o component ELSE component,
                 !.n = Len(node_id2)]

USET_apply_slice(t, uset, i) ==
    [uset EXCEPT !.n = Len(i), !.name = Take(t.name, i), !.node_id = Take(t.node_id, i),
                 !.component = Take(t.component, i)]

\* USET.parse_cards: one row per node, sorted by name
USET_parse_cards(t) ==
    IF ParseSkipped(t) THEN {[t |-> t, err |-> ""]}
    ELSE LET name == Flatten([c \in 1..Len(t.cards) |->
                                Repeat(t.cards[c][1], Len(t.cards[c][2]))])
             saved == USET_save(t, name, Flatten(Column(t.cards, 2)),
                                Flatten(Column(t.cards, 3)))
         IN {IF r.err = "" THEN [t |-> [r.t EXCEPT !.cards = <<>>], err |-> ""] ELSE r :
                r \in BaseSort(saved, saved.name,
                    [i \in Argsorts(saved.name) |->
                        [t |-> USET_apply_slice(saved, saved, i), err |-> ""]])}

\* USET.write_file: the outer dict is keyed by np.unique(name), ascending; the
\* components of a name come in the order first seen; the nodes of a card are
\* sorted
USET_group_cards(t, name) ==
    LET rows == RowsIn(t.name, <<name>>)
        comps == FirstSeen(Take(t.component, rows))
    IN [g \in 1..Len(comps) |->
          <<StrField("USET1"), StrField(name), IntField(comps[g])>>
          \o LET nids == SetToSortedSeq({t.node_id[r] : r \in {x \in Range(rows) : t.component[x] = comps[g]}})
             IN [j \in 1..Len(nids) |-> IntField(nids[j])]]
USET_write_file(t, size) ==
    IF t.n = 0 THEN [lines |-> <<>>, err |-> ""]
    ELSE LET size2 == update_field_size(MaxOf(t.node_id), size)
             names == Unique(t.name)
             cards == Flatten([g \in 1..Len(names) |-> USET_group_cards(t, names[g])])
         IN WrittenCards([c \in 1..Len(cards) |-> print_card_8_16(size2, cards[c])])

WriteKinds == {"SET1", "SPC1", "MPCADD", "MAT1"}
FieldSizes == {8, 16}
WideIds == {1, LargeId}
WideLists == {<<1>>, <<LargeId>>, <<1, LargeId>>}

WriteInit ==
    /\ model = NewModel
    /\ kind \in WriteKinds
    /\ raised = ""
    /\ hist = <<>>
    /\ phase = "staging"
    /\ nparse = 0
    /\ result = NoResult

\* write_file(size): out is [lines, err]
FileWritten(size, out) ==
    /\ result' = [tag |-> "file", size |-> size, lines |-> out.lines]
    /\ raised' = out.err
    /\ phase' = "written"
    /\ UNCHANGED <<model, kind, hist, nparse>>

Write_SET1_Add ==
    /\ CanAdd("SET1")
    /\ \E sid \in WideIds, ids \in WideLists :
          Staged(<<sid, ids>>, [model EXCEPT !.set1 = SET1_add(@, sid, ids, FALSE)])

Write_SET1_ParseCards ==
    /\ CanParse("SET1")
    /\ \E r \in SET1_parse_cards(model.set1) :
          Parsed([model EXCEPT !.set1 = r.t], model.set1, r)

Write_SET1_WriteFile ==
    /\ CanWrite("SET1")
    /\ \E size \in FieldSizes : FileWritten(size, SET1_write_file(model.set1, size))

Write_SPC1_Add ==
    /\ CanAdd("SPC1")
    /\ \E spc_id \in WideIds, c \in Components, nodes \in WideLists :
          Staged(<<spc_id, nodes>>, [model EXCEPT !.spc1 = SPC1_add(@, spc_id, c, nodes)])

Write_SPC1_ParseCards ==
    /\ CanParse("SPC1")
    /\ LET r == SPC1_parse_cards(model.spc1)
       IN Parsed([model EXCEPT !.spc1 = r.t], model.spc1, r)

Write_SPC1_WriteFile ==
    /\ CanWrite("SPC1")
    /\ \E size \in FieldSizes : FileWritten(size, SPC1_write_file(model.spc1, size))

Write_MPCADD_Add ==
    /\ CanAdd("MPCADD")
    /\ \E sid \in WideIds, sets \in WideLists :
          Staged(<<sid, sets>>, [model EXCEPT !.mpcadd = ADD_add(@, sid, sets)])

Write_MPCADD_ParseCards ==
    /\ CanParse("MPCADD")
    /\ LET r == ADD_parse_cards(model.mpcadd)
       IN Parsed([model EXCEPT !.mpcadd = r.t], model.mpcadd, r)

Write_MPCADD_WriteFile ==
    /\ CanWrite("MPCADD")
    /\ \E size \in FieldSizes : FileWritten(size, MPCADD_write_file(model.mpcadd, size))

\* the MAT1 rows added, as (E, G, nu, rho, ge, St, mcsid): rows with every
\* optional field at its default (G given beside nu = 0, G equal to and
\* different from E / (2 (1 + nu))), and rows with one optional field set
MatRows ==
    {<<4, 1, 0, 0, 0, 0, 0>>, <<4, 1, 1, 0, 0, 0, 0>>, <<4, 2, 1, 0, 0, 0, 0>>,
     <<4, 1, 0, 0, 1, 0, 0>>, <<4, 1, 1, 0, 0, 0, 1>>}

Write_MAT1_Add ==
    /\ CanAdd("MAT1")
    /\ \E mid \in Ids, r \in MatRows :
          Staged(<<mid, r>>,
                 [model EXCEPT !.mat1 = MAT1_add(@, mid, r[1], r[2], r[3], r[4], 0, 0, r[5], r[6], 0, 0, r[7])])

Write_MAT1_ParseCards ==
    /\ CanParse("MAT1")
    /\ \E r \in MAT1_parse_cards(model.mat1) :
          Parsed([model EXCEPT !.mat1 = r.t], model.mat1, r)

Write_MAT1_WriteFile ==
    /\ CanWrite("MAT1")
    /\ \E size \in FieldSizes : FileWritten(size, MAT1_write_file(model.mat1, size))

\* node lists of the grouped cards: 1..k, and at most MaxPairs rows in a table
MaxPairs == 4
NodeRuns == {[j \in 1..k |-> j] : k \in 1..MaxPairs}

Write_SUPORT_AddSet ==
    /\ CanAdd("SUPORT")
    /\ \E nids \in NodeRuns, c \in Components :
          /\ model.suport.n + Len(nids) <= MaxPairs
          /\ Staged(<<0, nids>>,
                    [model EXCEPT !.suport = SUPORT_add_set(@, nids, Repeat(c, Len(nids)))])

Write_SUPORT_AddSet1 ==
    /\ CanAdd("SUPORT")
    /\ \E suport_id \in Ids, nids \in NodeRuns, c \in Components :
          /\ model.suport.n + Len(nids) <= MaxPairs
          /\ Staged(<<suport_id, nids>>,
                    [model EXCEPT !.suport = SUPORT_add_set1(@, suport_id, nids, c)])

Write_SUPORT_ParseCards ==
    /\ CanParse("SUPORT")
    /\ \E r \in SUPORT_parse_cards(model.suport) :
          Parsed([model EXCEPT !.suport = r.t], model.suport, r)

Write_SUPORT_WriteFile ==
    /\ CanWrite("SUPORT")
    /\ \E size \in FieldSizes : FileWritten(size, SUPORT_write_file(model.suport, size))

\* an ASET or USET table holds at most MaxSetRows rows
MaxSetRows == 3
SetComponents == {1, 2}
SetNames == {1, 2}

Write_ASET_AddSet1 ==
    /\ CanAdd("ASET")
    /\ \E nids \in NodeRuns, c \in SetComponents :
          /\ model.aset.n + Len(nids) <= MaxSetRows
          /\ Staged(<<c, nids>>,
                    [model EXCEPT !.aset = ABCOQSET_add_set1(@, nids, c)])

Write_ASET_ParseCards ==
    /\ CanParse("ASET")
    /\ \E r \in ABCOQSET_parse_cards(model.aset) :
          Parsed([model EXCEPT !.aset = r.t], model.aset, r)

Write_ASET_WriteFile ==
    /\ CanWrite("ASET")
    /\ \E size \in FieldSizes : FileWritten(size, ABCOQSET_write_file(model.aset, size))

Write_USET_AddSet1 ==
    /\ CanAdd("USET")
    /\ \E name \in SetNames, nids \in NodeRuns, c \in SetComponents :
          /\ model.uset.n + Len(nids) <= MaxSetRows
          /\ Staged(<<name, c, nids>>,
                    [model EXCEPT !.uset = USET_add_set1(@, name, nids, c)])

Write_USET_ParseCards ==
    /\ CanParse("USET")
    /\ \E r \in USET_parse_cards(model.uset) :
          Parsed([model EXCEPT !.uset = r.t], model.uset, r)

Write_USET_WriteFile ==
    /\ CanWrite("USET")
    /\ \E size \in FieldSizes : FileWritten(size, USET_write_file(model.uset, size))

WriteNext ==
    \/ Write_SET1_Add \/ Write_SET1_ParseCards \/ Write_SET1_WriteFile
    \/ Write_SPC1_Add \/ Write_SPC1_ParseCards \/ Write_SPC1_WriteFile
    \/ Write_MPCADD_Add \/ Write_MPCADD_ParseCards \/ Write_MPCADD_WriteFile
    \/ Write_MAT1_Add \/ Write_MAT1_ParseCards \/ Write_MAT1_WriteFile

SpecWrite == WriteInit /\ [][WriteNext]_vars

\* ---------------------------------------- SpecGrouped: grouped tables written
\* A SUPORT, ASET or USET table is populated, parsed and written; its writer
\* groups the rows by a key column.
GroupedKinds == {"SUPORT", "ASET", "USET"}

GroupedInit ==
    /\ model = NewModel
    /\ kind \in GroupedKinds
    /\ raised = ""
    /\ hist = <<>>
    /\ phase = "staging"
    /\ nparse = 0
    /\ result = NoResult

GroupedNext ==
    \/ Write_SUPORT_AddSet \/ Write_SUPORT_AddSet1 \/ Write_SUPORT_ParseCards
    \/ Write_SUPORT_WriteFile
    \/ Write_ASET_AddSet1 \/ Write_ASET_ParseCards \/ Write_ASET_WriteFile
    \/ Write_USET_AddSet1 \/ Write_USET_ParseCards \/ Write_USET_WriteFile

SpecGrouped == GroupedInit /\ [][GroupedNext]_vars

\* ------------------------------------------ SpecRewrite: a table written twice
\* A SET1 or USET table is populated, parsed and written, possibly several
\* times in a row.  result keeps the table as it was before the call, the
\* lines written, and the lines of the call before when nothing happened in
\* between.
RewriteKinds == {"SET1", "USET"}

RewriteInit ==
    /\ model = NewModel
    /\ kind \in RewriteKinds
    /\ raised = ""
    /\ hist = <<>>
    /\ phase = "staging"
    /\ nparse = 0
    /\ result = NoResult

\* USET.write_file with the sort of a group's node ids reaching the table's
\* own column: what sorting a view instead of a fresh list would do
USET_write_file_self_sorted(t, size) ==
    [t EXCEPT !.node_id = SortSeq(@, LAMBDA x, y : x < y)]

\* the table after write_file.  SET1.write_file assigns to locals only;
\* USET.write_file sorts lists it filled itself with append.
SET1_write_file_self(t, size) == t
USET_write_file_self(t, size) == t

FileRewritten(size, out, before, m) ==
    /\ model' = m
    /\ result' = [tag |-> "file", size |-> size, lines |-> out.lines, before |-> before,
                  again |-> phase = "written" /\ result.size = size,
                  previous |-> IF phase = "written" THEN result.lines ELSE <<>>]
    /\ raised' = out.err
    /\ phase' = "written"
    /\ UNCHANGED <<kind, hist, nparse>>

CanRewrite(k) == kind = k /\ raised = "" /\ phase \in {"parsed", "written"}

Rewrite_SET1_WriteFile ==
    /\ CanRewrite("SET1")
    /\ \E size \in FieldSizes :
          FileRewritten(size, SET1_write_file(model.set1, size), model.set1,
                        [model EXCEPT !.set1 = SET1_write_file_self(@, size)])

Rewrite_USET_WriteFile ==
    /\ CanRewrite("USET")
    /\ \E size \in FieldSizes :
          FileRewritten(size, USET_write_file(model.uset, size), model.uset,
                        [model EXCEPT !.uset = USET_write_file_self(@, size)])

RewriteNext ==
    \/ Write_SET1_Add \/ Write_SET1_ParseCards \/ Rewrite_SET1_WriteFile
    \/ Write_USET_AddSet1 \/ Write_USET_ParseCards \/ Rewrite_USET_WriteFile

SpecRewrite == RewriteInit /\ [][RewriteNext]_vars

\* ------------------------------------- SpecAddCard: lines of repeated groups
\* A DEFORM, PLOTEL or SPC table is populated with add_card from text lines
\* that pack one or more groups of fields, and parsed.  hist records, for
\* each line, the rows the line makes and n before and after the call.
AddCardKinds == {"DEFORM", "PLOTEL", "SPC"}

\* the lines: DEFORM with 1 to 3 (element, deformation) pairs, PLOTEL with 1
\* or 2 elements, SPC with 1 or 2 (node, component, enforced) groups
DEFORM_Card(sid, npairs) ==
    print_card(<<StrField("DEFORM"), IntField(sid)>>
               \o Flatten([j \in 1..npairs |-> <<IntField(j), RealField(1)>>]))
PLOTEL_Card(eid, nelements) ==
    print_card(<<StrField("PLOTEL"), IntField(eid), IntField(1), IntField(2)>>
               \o (IF nelements = 2
                   THEN <<Blank, IntField(eid + MaxId), IntField(2), IntField(1)>> ELSE <<>>))
SPC_Card(sid, ngroups) ==
    print_card(<<StrField("SPC"), IntField(sid), IntField(1), IntField(123), RealField(1)>>
               \o (IF ngroups = 2 THEN <<IntField(2), IntField(123), RealField(1)>> ELSE <<>>))

\* the rows a line makes: the rows of a fresh table after add_card of the line
\* and parse_cards
DEFORM_rows(card) ==
    LET r == CHOOSE r \in DEFORM_parse_cards(DEFORM_add_card(NewDEFORM, card)) : TRUE
    IN Len(r.t.load_id)
PLOTEL_rows(card) == Len(PLOTEL_parse_cards(PLOTEL_add_card(NewPLOTEL, card)).t.element_id)
SPC_rows(card) == Len(SPC_parse_cards(SPC_add_card(NewSPC, card)).t.spc_id)

AddCardInit ==
    /\ model = NewModel
    /\ kind \in AddCardKinds
    /\ raised = ""
    /\ hist = <<>>
    /\ phase = "staging"
    /\ nparse = 0
    /\ result = NoResult

AddCard_DEFORM_AddCard ==
    /\ CanAdd("DEFORM")
    /\ \E sid \in Ids, npairs \in {1, 2, 3} :
          LET card == DEFORM_Card(sid, npairs)
              t == DEFORM_add_card(model.deform, card)
          IN Staged([tag |-> "DEFORM", groups |-> npairs, rows |-> DEFORM_rows(card),
                     before |-> model.deform.n, after |-> t.n],
                    [model EXCEPT !.deform = t])

AddCard_DEFORM_ParseCards ==
    /\ CanParse("DEFORM")
    /\ \E r \in DEFORM_parse_cards(model.deform) :
          Parsed([model EXCEPT !.deform = r.t], model.deform, r)

AddCard_PLOTEL_AddCard ==
    /\ CanAdd("PLOTEL")
    /\ \E eid \in Ids, nelements \in {1, 2} :
          LET card == PLOTEL_Card(eid, nelements)
              t == PLOTEL_add_card(model.plotel, card)
          IN Staged([tag |-> "PLOTEL", groups |-> nelements, rows |-> PLOTEL_rows(card),
                     before |-> model.plotel.n, after |-> t.n],
                    [model EXCEPT !.plotel = t])

AddCard_PLOTEL_ParseCards ==
    /\ CanParse("PLOTEL")
    /\ LET r == PLOTEL_parse_cards(model.plotel)
       IN Parsed([model EXCEPT !.plotel = r.t], model.plotel, r)

AddCard_SPC_AddCard ==
    /\ CanAdd("SPC")
    /\ \E sid \in Ids, ngroups \in {1, 2} :
          LET card == SPC_Card(sid, ngroups)
              t == SPC_add_card(model.spc, card)
          IN Staged([tag |-> "SPC", groups |-> ngroups, rows |-> SPC_rows(card),
                     before |-> model.spc.n, after |-> t.n],
                    [model EXCEPT !.spc = t])

AddCard_SPC_ParseCards ==
    /\ CanParse("SPC")
    /\ LET r == SPC_parse_cards(model.spc)
       IN Parsed([model EXCEPT !.spc = r.t], model.spc, r)

AddCardNext ==
    \/ AddCard_DEFORM_AddCard \/ AddCard_DEFORM_ParseCards
    \/ AddCard_PLOTEL_AddCard \/ AddCard_PLOTEL_ParseCards
    \/ AddCard_SPC_AddCard \/ AddCard_SPC_ParseCards

SpecAddCard == AddCardInit /\ [][AddCardNext]_vars

\* ------------------------------------ SpecFailFast: malformed card content
\* SET1 and MPC lines, well formed and malformed, are read with add_card and
\* committed with parse_cards; result records which of the two calls was
\* made last.

\* expand_thru on the id fields of a card, integers and strings: a THRU is
\* replaced by the run between its neighbours (the field before the first one
\* is the last one), any other field is kept; the list is then made a set,
\* which for the ascending ids of these cards is the list without repeats.
\* int() of a string that is no number raises ValueError, a THRU in the last
\* place reads past the list.
RECURSIVE ExpandFrom(_, _, _)
ExpandFrom(fields, p, out) ==
    IF p > Len(fields) THEN [out |-> out, err |-> ""]
    ELSE IF fields[p] = StrField("THRU")
    THEN LET before == IF p = 1 THEN fields[Len(fields)] ELSE fields[p - 1]
         IN IF before[1] # "int" THEN [out |-> <<>>, err |-> "ValueError"]
            ELSE IF p + 1 > Len(fields) THEN [out |-> <<>>, err |-> "IndexError"]
            ELSE IF fields[p + 1][1] # "int" THEN [out |-> <<>>, err |-> "ValueError"]
            ELSE ExpandFrom(fields, p + 2,
                            out \o [j \in 1..Max0(fields[p + 1][2] - before[2]) |->
                                       IntField(before[2] + j)])
    ELSE ExpandFrom(fields, p + 1, Append(out, fields[p]))
expand_thru_fields(fields) ==
    IF Len(fields) = 1
    THEN IF fields[1][1] = "int" THEN [out |-> fields, err |-> ""]
         ELSE [out |-> <<>>, err |-> "ValueError"]
    ELSE ExpandFrom(fields, 1, <<>>)

\* SET1.add_card: sid, then every further field read with integer_or_string;
\* a leading SKIN sets is_skin; the ids are staged as read
SET1_add_card_err(card) ==
    IF ~integer_ok(card, 1) THEN "SyntaxError"
    ELSE IF \E i \in 2..(Len(card) - 1) : Field(card, i)[1] \notin {"int", "str"}
    THEN "SyntaxError"
    ELSE IF Len(card) <= 2 THEN "AssertionError"
    ELSE ""
SET1_add_card(t, card) ==
    LET ids == SubSeq(card, 3, Len(card))
        is_skin == ids # <<>> /\ ids[1] = StrField("SKIN")
    IN [t EXCEPT !.cards = Append(@, <<integer(card, 1), is_skin,
                                       IF is_skin THEN Tail(ids) ELSE ids>>),
                 !.n = @ + 1]

\* SET1.parse_cards on cards staged by add_card: expand_thru on each card's
\* fields, then the array of all ids is built (a string left among them is no
\* integer), then _save and sort as for cards staged by add
SET1_parse_cards_fields(t) ==
    IF ParseSkipped(t) THEN {[t |-> t, err |-> ""]}
    ELSE LET ids2 == [c \in 1..Len(t.cards) |-> expand_thru_fields(t.cards[c][3])]
         IN IF \E c \in 1..Len(ids2) : ids2[c].err # ""
            THEN {[t |-> t, err |-> ids2[CHOOSE c \in 1..Len(ids2) :
                                            /\ ids2[c].err # ""
                                            /\ \A d \in 1..(c - 1) : ids2[d].err = ""].err]}
            ELSE IF \E c \in 1..Len(ids2) : \E j \in 1..Len(ids2[c].out) : ids2[c].out[j][1] # "int"
            THEN {[t |-> t, err |-> "ValueError"]}
            ELSE SET1_parse_cards(
                    [t EXCEPT !.cards =
                        [c \in 1..Len(t.cards) |->
                            <<t.cards[c][1], t.cards[c][2],
                              Unique([j \in 1..Len(ids2[c].out) |-> ids2[c].out[j][2]])>>]])

\* MPC.add_card on a card of one line: G1, C1, A1 and G2, C2, A2.  A1 is read
\* with double and must not be zero, G2 with integer, A2 with double_or_blank.
MPC_add_card_err(card) ==
    IF ~integer_ok(card, 1) THEN "SyntaxError"
    ELSE IF Len(card) <= 2 THEN ""
    ELSE IF ~integer_ok(card, 2) \/ ~integer_or_blank_ok(card, 3) \/ ~double_ok(card, 4)
    THEN "SyntaxError"
    ELSE IF double(card, 4) = 0 THEN "RuntimeError"
    ELSE IF ~integer_ok(card, 5) \/ ~integer_or_blank_ok(card, 6) \/ ~double_or_blank_ok(card, 7)
    THEN "SyntaxError"
    ELSE ""
MPC_add_card(t, card) ==
    IF Len(card) <= 2 THEN MPC_add(t, integer(card, 1), <<>>, <<>>, <<>>)
    ELSE MPC_add(t, integer(card, 1),
                 <<integer(card, 2), integer(card, 5)>>,
                 <<integer_or_blank(card, 3, 0), integer_or_blank(card, 6, 0)>>,
                 <<double(card, 4), double_or_blank(card, 7, 0)>>)

FailFastKinds == {"SET1", "MPC"}

\* the fields of the lines: integers, reals, THRU, a string that is no THRU
\* and, for MPC, blanks
MaxFields == 3
IdFields == {IntField(1), IntField(2), StrField("THRU"), StrField("ABC"), RealField(1)}
SET1_Cards ==
    {<<StrField("SET1"), IntField(sid)>> \o ids :
        sid \in Ids, ids \in SeqsUpTo(IdFields, 0, MaxFields)}
MPC_Cards ==
    {print_card(<<StrField("MPC"), IntField(conid), IntField(1), c1, a1, g2, Blank, a2>>) :
        conid \in Ids, c1 \in {Blank, IntField(1)},
        a1 \in {RealField(1), RealField(0), StrField("ABC"), IntField(1)},
        g2 \in {IntField(2), Blank}, a2 \in {RealField(1), Blank, StrField("ABC")}}

FailFastInit ==
    /\ model = NewModel
    /\ kind \in FailFastKinds
    /\ raised = ""
    /\ hist = <<>>
    /\ phase = "staging"
    /\ nparse = 0
    /\ result = NoResult

\* an add_card call: the table is touched only when the card is accepted
CardRead(card, err, m) ==
    /\ model' = IF err = "" THEN m ELSE model
    /\ hist' = Append(hist, card)
    /\ raised' = err
    /\ phase' = IF err = "" THEN "staging" ELSE "failed"
    /\ result' = [tag |-> "call", op |-> "add_card"]
    /\ UNCHANGED <<kind, nparse>>

CardsParsed(m, old, r) ==
    /\ model' = m
    /\ raised' = r.err
    /\ phase' = IF r.err = "" THEN "parsed" ELSE "failed"
    /\ nparse' = IF r.err = "" /\ ~ParseSkipped(old) THEN nparse + 1 ELSE nparse
    /\ result' = [tag |-> "call", op |-> "parse_cards"]
    /\ UNCHANGED <<kind, hist>>

FailFast_SET1_AddCard ==
    /\ CanAdd("SET1")
    /\ \E card \in SET1_Cards :
          CardRead(card, SET1_add_card_err(card),
                   [model EXCEPT !.set1 = SET1_add_card(@, card)])

FailFast_SET1_ParseCards ==
    /\ CanParse("SET1")
    /\ \E r \in SET1_parse_cards_fields(model.set1) :
          CardsParsed([model EXCEPT !.set1 = r.t], model.set1, r)

FailFast_MPC_AddCard ==
    /\ CanAdd("MPC")
    /\ \E card \in MPC_Cards :
          CardRead(card, MPC_add_card_err(card),
                   [model EXCEPT !.mpc = MPC_add_card(@, card)])

FailFast_MPC_ParseCards ==
    /\ CanParse("MPC")
    /\ LET r == MPC_parse_cards(model.mpc)
       IN CardsParsed([model EXCEPT !.mpc = r.t], model.mpc, r)

FailFastNext ==
    \/ FailFast_SET1_AddCard \/ FailFast_SET1_ParseCards
    \/ FailFast_MPC_AddCard \/ FailFast_MPC_ParseCards

SpecFailFast == FailFastInit /\ [][FailFastNext]_vars

\* --------------------------------------------- SpecSpcoff: the SPCOFF table
\* An SPCOFF table is populated through add_set, add_set1, add_set_card and
\* add_set1_card and parsed.  A staged tuple keeps its comment, so that its
\* length is the one parse_cards meets.
NewSPCOFF == [n |-> 0, cards |-> <<>>, node_id |-> <<>>, component |-> <<>>]

\* SPCOFF.add_set(nids, components)
SPCOFF_add_set_ok(nids, components) == Len(nids) = Len(components)
SPCOFF_add_set(t, nids, components) ==
    [t EXCEPT !.cards = Append(@, <<0, nids, components, "">>), !.n = @ + Len(nids)]

\* SPCOFF.add_set1(suport_id, nids, component)
SPCOFF_add_set1(t, suport_id, nids, component) ==
    LET nids2 == expand_thru(nids)
    IN [t EXCEPT !.cards = Append(@, <<suport_id, nids2, Repeat(component, Len(nids2)), "">>),
                 !.n = @ + Len(nids2)]

\* SPCOFF.add_set_card: (node, component) pairs from field 1 on, a blank
\* component read as 0
SPCOFF_nconstraints(card) ==
    LET nfields == Len(card) - 1
    IN IF nfields % 2 = 1 THEN nfields \div 2 + 1 ELSE nfields \div 2
SPCOFF_add_set_card_err(card) ==
    IF \E counter \in 0..(SPCOFF_nconstraints(card) - 1) :
          ~integer_ok(card, counter * 2 + 1) \/ ~integer_or_blank_ok(card, counter * 2 + 2)
    THEN "SyntaxError"
    ELSE IF Len(card) <= 1 THEN "AssertionError"
    ELSE ""
SPCOFF_add_set_card(t, card) ==
    LET nodes == [k \in 1..SPCOFF_nconstraints(card) |-> integer(card, (k - 1) * 2 + 1)]
        components == [k \in 1..SPCOFF_nconstraints(card) |->
                          integer_or_blank(card, (k - 1) * 2 + 2, 0)]
    IN [t EXCEPT !.cards = Append(@, <<nodes, components, "">>), !.n = @ + Len(nodes)]

\* SPCOFF.add_set1_card: the components in field 1, the nodes from field 2 on
SPCOFF_add_set1_card_err(card) ==
    IF ~integer_ok(card, 1) THEN "SyntaxError"
    ELSE IF Len(card) <= 2 THEN "AssertionError"
    ELSE ""
SPCOFF_add_set1_card(t, card) ==
    LET nodes == expand_thru([k \in 1..(Len(card) - 2) |-> Field(card, k + 1)[2]])
    IN [t EXCEPT !.cards = Append(@, <<nodes, Repeat(integer(card, 1), Len(nodes)), "">>),
                 !.n = @ + Len(nodes)]

\* SPCOFF._setup unpacks every staged tuple into (nodes, components, comment)
SPCOFF_setup_err(cards) ==
    IF \E k \in 1..Len(cards) : Len(cards[k]) # 3 THEN "ValueError" ELSE ""
SPCOFF_setup(cards) ==
    [node_id |-> Flatten(Column(cards, 1)), component |-> Flatten(Column(cards, 2))]

\* SPCOFF._save stacks the batch behind the stored rows
SPCOFF_save(t, node_id, component) ==
    [t EXCEPT !.node_id = @ \o node_id, !.component = @ \o component,
              !.n = Len(t.node_id) + Len(node_id)]

SPCOFF_parse_cards(t) ==
    IF ParseSkipped(t) THEN [t |-> t, err |-> ""]
    ELSE IF SPCOFF_setup_err(t.cards) # "" THEN [t |-> t, err |-> SPCOFF_setup_err(t.cards)]
    ELSE LET b == SPCOFF_setup(t.cards)
         IN [t |-> [SPCOFF_save(t, b.node_id, b.component) EXCEPT !.cards = <<>>],
             err |-> ""]

\* lists of node ids and of components, and the text lines that stage the same rows
SpcoffNodes == {<<1>>, <<2>>, <<1, 2>>}
SPCOFF_Card(nids, components) ==
    print_card(<<StrField("SPCOFF")>>
               \o Flatten([k \in 1..Len(nids) |-> <<IntField(nids[k]), IntField(components[k])>>]))
SPCOFF1_Card(component, nids) ==
    print_card(<<StrField("SPCOFF1"), IntField(component)>>
               \o [k \in 1..Len(nids) |-> IntField(nids[k])])

\* the table is one of the model's tables; this specification keeps it as
\* the whole of model
SpcoffInit ==
    /\ model = NewSPCOFF
    /\ kind = "SPCOFF"
    /\ raised = ""
    /\ hist = <<>>
    /\ phase = "staging"
    /\ nparse = 0
    /\ result = NoResult

\* hist keeps, for each call, the method and the (nodes, components) it staged
Spcoff_AddSet ==
    /\ CanAdd("SPCOFF")
    /\ \E nids \in SpcoffNodes, c \in SetComponents :
          LET components == Repeat(c, Len(nids))
          IN /\ SPCOFF_add_set_ok(nids, components)
             /\ Staged(<<"add_set", nids, components>>, SPCOFF_add_set(model, nids, components))

Spcoff_AddSet1 ==
    /\ CanAdd("SPCOFF")
    /\ \E nids \in SpcoffNodes, c \in SetComponents :
          Staged(<<"add_set1", nids, Repeat(c, Len(nids))>>,
                 SPCOFF_add_set1(model, 0, nids, c))

Spcoff_AddSetCard ==
    /\ CanAdd("SPCOFF")
    /\ \E nids \in SpcoffNodes, c \in SetComponents :
          LET card == SPCOFF_Card(nids, Repeat(c, Len(nids)))
          IN /\ SPCOFF_add_set_card_err(card) = ""
             /\ Staged(<<"add_set_card", nids, Repeat(c, Len(nids))>>,
                       SPCOFF_add_set_card(model, card))

Spcoff_AddSet1Card ==
    /\ CanAdd("SPCOFF")
    /\ \E nids \in SpcoffNodes, c \in SetComponents :
          LET card == SPCOFF1_Card(c, nids)
          IN /\ SPCOFF_add_set1_card_err(card) = ""
             /\ Staged(<<"add_set1_card", nids, Repeat(c, Len(nids))>>,
                       SPCOFF_add_set1_card(model, card))

Spcoff_ParseCards ==
    /\ CanParse("SPCOFF")
    /\ LET r == SPCOFF_parse_cards(model)
       IN Parsed(r.t, model, r)

SpcoffNext ==
    \/ Spcoff_AddSet \/ Spcoff_AddSet1 \/ Spcoff_AddSetCard \/ Spcoff_AddSet1Card
    \/ Spcoff_ParseCards

SpecSpcoff == SpcoffInit /\ [][SpcoffNext]_vars

\* ------------------------------------------------ SpecConvert: unit scaling
\* A CONM2 or MAT1 table is populated and parsed, and the model's convert
\* scales it with one dictionary of factors for all tables; result keeps the
\* table as it was before the call and the dictionary.  One conversion per
\* behaviour keeps the scaled values bounded.
ConvertKinds == {"CONM2", "MAT1"}

\* the names of convert's scales_dict
ScaleNames ==
    {"xyz_scale", "area_scale", "volume_scale", "time_scale", "gravity_scale",
     "mass_scale", "temperature_scale", "alpha_scale", "velocity_scale", "accel_scale",
     "force_scale", "moment_scale", "pressure_scale", "density_scale",
     "mass_inertia_scale", "area_inertia_scale", "nsm_per_length_scale",
     "nsm_per_area_scale", "stress_scale", "stiffness_scale"}
\* the named parameters of the tables' convert methods
ConvertKeys(k) ==
    IF k = "CONM2" THEN {"xyz_scale", "mass_scale", "mass_inertia_scale"}
    ELSE {"stiffness_scale", "density_scale", "alpha_scale", "temperature_scale",
          "stress_scale"}

\* dictionaries of whole-number factors: every factor 1, and a dictionary in
\* which the factors the two tables read are all different
OneScales == [name \in ScaleNames |-> 1]
DistinctScales ==
    [name \in ScaleNames |->
        CASE name = "xyz_scale" -> 2 [] name = "mass_scale" -> 3
          [] name = "mass_inertia_scale" -> 12 [] name = "stiffness_scale" -> 5
          [] name = "density_scale" -> 7 [] name = "alpha_scale" -> 11
          [] name = "temperature_scale" -> 13 [] name = "stress_scale" -> 17
          [] OTHER -> 19]
ScaleDicts == {OneScales, DistinctScales}

\* convert(model, ...): every table with rows whose type is supported is
\* checked for parameters the dictionary lacks and converted
convert(t, k, scales_dict) ==
    IF t.n = 0 THEN [t |-> t, err |-> ""]
    ELSE IF ~(ConvertKeys(k) \subseteq DOMAIN scales_dict) THEN [t |-> t, err |-> "AssertionError"]
    ELSE [t |-> IF k = "CONM2" THEN CONM2_convert(t, scales_dict)
                ELSE MAT1_convert(t, scales_dict),
          err |-> ""]

ConvertInit ==
    /\ model = NewModel
    /\ kind \in ConvertKinds
    /\ raised = ""
    /\ hist = <<>>
    /\ phase = "staging"
    /\ nparse = 0
    /\ result = NoResult

Offsets == {<<0, 0, 0>>, <<1, 2, 3>>}
Inertias == {<<1, 0, 2, 0, 0, 3>>}

Convert_CONM2_Add ==
    /\ CanAdd("CONM2")
    /\ \E eid \in Ids, X \in Offsets, I \in Inertias :
          Staged(<<eid, X>>, [model EXCEPT !.conm2 = CONM2_add(@, eid, 1, eid, 0, X, I)])

Convert_CONM2_ParseCards ==
    /\ CanParse("CONM2")
    /\ \E r \in CONM2_parse_cards(model.conm2) :
          Parsed([model EXCEPT !.conm2 = r.t], model.conm2, r)

Convert_MAT1_Add ==
    /\ CanAdd("MAT1")
    /\ \E mid \in Ids, E \in Mags :
          Staged(<<mid, E>>,
                 [model EXCEPT !.mat1 = MAT1_add(@, mid, E, 1, 1, 1, 2, 3, 1, 1, 2, 3, mid)])

Convert_MAT1_ParseCards ==
    /\ CanParse("MAT1")
    /\ \E r \in MAT1_parse_cards(model.mat1) :
          Parsed([model EXCEPT !.mat1 = r.t], model.mat1, r)

\* convert on the model: the table of this kind is the one with rows
Converted(before, scales_dict, r, m) ==
    /\ model' = m
    /\ result' = [tag |-> "convert", before |-> before, scales |-> scales_dict]
    /\ raised' = r.err
    /\ phase' = "converted"
    /\ UNCHANGED <<kind, hist, nparse>>

Convert_CONM2 ==
    /\ kind = "CONM2" /\ raised = "" /\ result = NoResult
    /\ \E scales_dict \in ScaleDicts :
          LET r == convert(model.conm2, "CONM2", scales_dict)
          IN Converted(model.conm2, scales_dict, r, [model EXCEPT !.conm2 = r.t])

Convert_MAT1 ==
    /\ kind = "MAT1" /\ raised = "" /\ result = NoResult
    /\ \E scales_dict \in ScaleDicts :
          LET r == convert(model.mat1, "MAT1", scales_dict)
          IN Converted(model.mat1, scales_dict, r, [model EXCEPT !.mat1 = r.t])

ConvertNext ==
    \/ Convert_CONM2_Add \/ Convert_CONM2_ParseCards \/ Convert_CONM2
    \/ Convert_MAT1_Add \/ Convert_MAT1_ParseCards \/ Convert_MAT1

SpecConvert == ConvertInit /\ [][ConvertNext]_vars

\* ------------------------------------------- SpecGeomCheck: reference check
\* A CONM2 or DEFORM table is populated and parsed, then checked against
\* target tables whose ids are the action's input; result keeps the targets
\* and the report.
GeomCheckKinds == {"CONM2", "DEFORM"}

GeomCheckInit ==
    /\ model = NewModel
    /\ kind \in GeomCheckKinds
    /\ raised = ""
    /\ hist = <<>>
    /\ phase = "staging"
    /\ nparse = 0
    /\ result = NoResult

CoordIds == {-1, 0, 1}
\* id columns of target tables: sorted, without repeats, possibly empty
IdColumns(S) == {SetToSortedSeq(T) : T \in SUBSET S}
\* the element_id arrays of the populated line element tables
LineElementIds == SeqsUpTo(IdColumns(Ids) \ {<<>>}, 0, 2)

GeomCheck_CONM2_Add ==
    /\ CanAdd("CONM2")
    /\ \E eid \in Ids, nid \in Ids, cid \in CoordIds :
          Staged(<<eid, nid, cid>>,
                 [model EXCEPT !.conm2 = CONM2_add(@, eid, nid, 1, cid, <<0, 0, 0>>,
                                                   <<1, 0, 1, 0, 0, 1>>)])

GeomCheck_CONM2_ParseCards ==
    /\ CanParse("CONM2")
    /\ \E r \in CONM2_parse_cards(model.conm2) :
          Parsed([model EXCEPT !.conm2 = r.t], model.conm2, r)

GeomCheck_DEFORM_Add ==
    /\ CanAdd("DEFORM")
    /\ \E sid \in Ids, eid \in Ids :
          Staged(<<sid, eid>>, [model EXCEPT !.deform = DEFORM_add(@, sid, eid, 1)])

GeomCheck_DEFORM_ParseCards ==
    /\ CanParse("DEFORM")
    /\ \E r \in DEFORM_parse_cards(model.deform) :
          Parsed([model EXCEPT !.deform = r.t], model.deform, r)

\* geom_check on a parsed table with rows; the model is left alone
Checked(targets, r) ==
    /\ result' = [tag |-> "geom_check", targets |-> targets, missing |-> r.missing]
    /\ raised' = r.err
    /\ phase' = "checked"
    /\ UNCHANGED <<model, kind, hist, nparse>>

CanCheck(k, t) == kind = k /\ raised = "" /\ phase = "parsed" /\ t.n > 0 /\ Len(t.cards) = 0

GeomCheck_CONM2 ==
    /\ CanCheck("CONM2", model.conm2)
    /\ \E nid \in IdColumns(Ids), cid \in IdColumns(CoordIds \ {-1}) :
          Checked([node |-> nid, coord |-> cid],
                  CONM2_geom_check(model.conm2, nid, cid, NoMissing))

GeomCheck_DEFORM ==
    /\ CanCheck("DEFORM", model.deform)
    /\ \E line_element_ids \in LineElementIds :
          Checked([element_id |-> Flatten(line_element_ids)],
                  DEFORM_geom_check(model.deform, line_element_ids, NoMissing))

GeomCheckNext ==
    \/ GeomCheck_CONM2_Add \/ GeomCheck_CONM2_ParseCards \/ GeomCheck_CONM2
    \/ GeomCheck_DEFORM_Add \/ GeomCheck_DEFORM_ParseCards \/ GeomCheck_DEFORM

SpecGeomCheck == GeomCheckInit /\ [][GeomCheckNext]_vars

\* ------------------------------------- SpecNoAppend: tables of a single batch
\* A FORCE1, FORCE2 or CONM2 table is populated and parsed in one or more
\* batches; result keeps the table as it was before each parse_cards call.
NoAppendKinds == {"FORCE1", "FORCE2", "CONM2"}

NoAppendInit ==
    /\ model = NewModel
    /\ kind \in NoAppendKinds
    /\ raised = ""
    /\ hist = <<>>
    /\ phase = "staging"
    /\ nparse = 0
    /\ result = NoResult

\* a parse_cards call whose table before the call is kept
ParsedFrom(m, old, r) ==
    /\ model' = m
    /\ raised' = r.err
    /\ phase' = IF r.err = "" THEN "parsed" ELSE "failed"
    /\ nparse' = IF r.err = "" /\ ~ParseSkipped(old) THEN nparse + 1 ELSE nparse
    /\ result' = [tag |-> "parse", before |-> old]
    /\ UNCHANGED <<kind, hist>>

NoAppend_FORCE1_Add ==
    /\ CanAdd("FORCE1")
    /\ \E sid \in Ids, mag \in Mags :
          Staged(<<sid, mag>>, [model EXCEPT !.force1 = Load1_add(@, sid, 1, mag, 1, 2)])

NoAppend_FORCE1_ParseCards ==
    /\ CanParse("FORCE1")
    /\ LET r == Load1_parse_cards(model.force1)
       IN ParsedFrom([model EXCEPT !.force1 = r.t], model.force1, r)

NoAppend_FORCE2_Add ==
    /\ CanAdd("FORCE2")
    /\ \E sid \in Ids, mag \in Mags :
          Staged(<<sid, mag>>, [model EXCEPT !.force2 = Load2_add(@, sid, 1, mag, 1, 2, 3, 4)])

NoAppend_FORCE2_ParseCards ==
    /\ CanParse("FORCE2")
    /\ LET r == Load2_parse_cards(model.force2)
       IN ParsedFrom([model EXCEPT !.force2 = r.t], model.force2, r)

NoAppend_CONM2_Add ==
    /\ CanAdd("CONM2")
    /\ \E eid \in Ids, mass \in Mags :
          Staged(<<eid, mass>>,
                 [model EXCEPT !.conm2 = CONM2_add(@, eid, 1, mass, 0, <<0, 0, 0>>,
                                                   <<1, 0, 1, 0, 0, 1>>)])

NoAppend_CONM2_ParseCards ==
    /\ CanParse("CONM2")
    /\ \E r \in CONM2_parse_cards(model.conm2) :
          ParsedFrom([model EXCEPT !.conm2 = r.t], model.conm2, r)

NoAppendNext ==
    \/ NoAppend_FORCE1_Add \/ NoAppend_FORCE1_ParseCards
    \/ NoAppend_FORCE2_Add \/ NoAppend_FORCE2_ParseCards
    \/ NoAppend_CONM2_Add \/ NoAppend_CONM2_ParseCards

SpecNoAppend == NoAppendInit /\ [][NoAppendNext]_vars

\* ---------------------------------------- SpecBulkData: Writer.write_bulk_data
\* One write_bulk_data call, a step at a time.  model holds the names of the
\* sections and property tables that have rows and whether the deck that was
\* read had an ENDDATA card; result is the call: its enddata and close
\* arguments, the step it is at, the lines written so far (each the section
\* and the table it comes from) and whether the file is closed.
MaxPopulated == 2

\* Writer._write_common: the sections it writes, in order
write_common_sections ==
    <<"dmigs", "loads", "dynamic", "constraints", "optimization", "sets", "rejects",
      "coords">>

\* the sections with _write_common's sections first: what calling
\* _write_common ahead of the mesh would write
write_bulk_data_sections_common_first ==
    write_common_sections
    \o <<"params", "nodes", "elements", "properties", "materials", "masses",
         "rigid_elements", "nonstructural_mass">>

\* Writer.write_bulk_data: the sections it writes, in order
write_bulk_data_sections ==
    <<"params", "nodes", "elements", "properties", "materials", "masses",
      "rigid_elements", "nonstructural_mass">>
    \o write_common_sections

\* Writer._write_properties: the tables whose write_file it calls, in order
write_properties_tables ==
    <<"pelas", "pelast", "pdamp", "pdampt", "pvisc", "pgap",
      "pbush", "pbusht", "pbush1d",
      "pfast",
      "prod", "ptube",
      "pbar", "pbarl", "pbrsect",
      "pbeam", "pbeaml", "pbcomp",
      "pshear",
      "pshell", "pshln1", "pshln2", "pcomp", "pcompg",
      "plplane", "pplane", "pshln1", "pshln2",
      "psolid", "plsolid", "pcomps", "pcompls">>

\* what one section writes: a property table with rows writes them at every
\* write_file call made on it, any other section writes its block when it
\* has rows
SectionLines(section, populated) ==
    IF section = "properties"
    THEN LET calls == SelectSeq(write_properties_tables, LAMBDA table : table \in populated)
         IN [k \in 1..Len(calls) |-> [section |-> section, table |-> calls[k]]]
    ELSE IF section \in populated THEN <<[section |-> section, table |-> section]>>
    ELSE <<>>

\* the names that may have rows in the models examined
PopulatedNames ==
    (Range(write_bulk_data_sections) \ {"properties"})
    \cup {"pelas", "pshell", "pshln1", "pshln2", "pplane", "psolid"}
PopulatedSets == {P \in SUBSET PopulatedNames : Cardinality(P) <= MaxPopulated}

EnddataArgs == {"None", "True", "False"}

BulkDataInit ==
    /\ model \in [populated : PopulatedSets, has_enddata_card : BOOLEAN]
    /\ kind = "bulk_data"
    /\ raised = ""
    /\ hist = <<>>
    /\ phase = "ready"
    /\ nparse = 0
    /\ result = NoResult

\* the call is made
WriteBulkData_Call ==
    /\ phase = "ready"
    /\ \E enddata \in EnddataArgs, close \in BOOLEAN :
          result' = [tag |-> "bdf_file", enddata |-> enddata, close |-> close, step |-> 1,
                     lines |-> <<>>, closed |-> FALSE]
    /\ phase' = "writing"
    /\ UNCHANGED <<model, kind, raised, hist, nparse>>

\* the next section is written
WriteBulkData_Section ==
    /\ phase = "writing" /\ raised = ""
    /\ result.step \in 1..Len(write_bulk_data_sections)
    /\ LET lines == SectionLines(write_bulk_data_sections[result.step], model.populated)
       IN IF result.closed /\ lines # <<>>
          THEN raised' = "ValueError" /\ UNCHANGED result
          ELSE raised' = "" /\ result' = [result EXCEPT !.lines = @ \o lines, !.step = @ + 1]
    /\ UNCHANGED <<model, kind, hist, nparse, phase>>

\* ENDDATA is written or not
WriteBulkData_Enddata ==
    /\ phase = "writing" /\ raised = ""
    /\ result.step = Len(write_bulk_data_sections) + 1
    /\ LET wanted == (result.enddata = "None" /\ model.has_enddata_card)
                     \/ result.enddata = "True"
       IN IF wanted /\ result.closed
          THEN raised' = "ValueError" /\ UNCHANGED result
          ELSE /\ raised' = ""
               /\ result' = [result EXCEPT
                     !.lines = IF wanted
                               THEN Append(@, [section |-> "ENDDATA", table |-> "ENDDATA"])
                               ELSE @,
                     !.step = @ + 1]
    /\ UNCHANGED <<model, kind, hist, nparse, phase>>

\* the file is closed or not, and the call returns
WriteBulkData_Close ==
    /\ phase = "writing" /\ raised = ""
    /\ result.step = Len(write_bulk_data_sections) + 2
    /\ result' = [result EXCEPT !.closed = result.close, !.step = @ + 1]
    /\ phase' = "done"
    /\ UNCHANGED <<model, kind, raised, hist, nparse>>

BulkDataNext ==
    \/ WriteBulkData_Call \/ WriteBulkData_Section \/ WriteBulkData_Enddata
    \/ WriteBulkData_Close

SpecBulkData == BulkDataInit /\ [][BulkDataNext]_vars

\* multisets of rows
Count(a, x) == Cardinality({k \in 1..Len(a) : a[k] = x})
SameBag(a, b) == \A x \in Range(a) \cup Range(b) : Count(a, x) = Count(b, x)

\* the rows of a table, each a record of the row's entry in every column
TableRows(t, id, columns) == [k \in 1..Len(t[id]) |-> [f \in columns |-> t[f][k]]]
SameColumns(a, b, columns) == \A f \in columns : a[f] = b[f]

\* C1: a table populated through add and committed by parse_cards, once
\* written by write_file and read back through add_card and parse_cards, gives
\* columns equal to the original, element by element (as the same rows in any
\* order for MAT8, which parse_cards sorts): FORCE2 rows keep g1, g2, g3, g4
\* in order, MAT8 rows keep G23, ACCEL rows keep their (loc, val) pairs, and
\* reading the written cards raises nothing.
C1_RoundTripEqual ==
    /\ phase = "written" => raised = ""
    /\ phase = "reread" =>
          /\ raised = ""
          /\ kind = "FORCE2" =>
                SameColumns(result.t, model.force2, {"n", "load_id", "node_id", "mag", "nodes"})
          /\ kind = "MAT8" =>
                /\ result.t.n = model.mat8.n
                /\ SameBag(TableRows(result.t, "material_id", MAT8Columns),
                           TableRows(model.mat8, "material_id", MAT8Columns))
          /\ kind = "ACCEL" =>
                SameColumns(result.t, model.accel,
                            {"n", "load_id", "coord_id", "nloc", "locs", "vals", "direction", "N"})

\* a FORCE2 row added with direction nodes (1, 1, 2, 1) has been written and
\* read back as (1, 2, 1, 1)
C1_SwappedNodesReread ==
    /\ kind = "FORCE2" /\ phase = "reread" /\ raised = ""
    /\ model.force2.nodes = <<<<1, 1, 2, 1>>>>
    /\ result.t.nodes = <<<<1, 2, 1, 1>>>>

\* C2: after a completed parse_cards the columnar arrays of FORCE/MOMENT, SPC
\* and LOAD are the concatenation, in add order, of every row staged so far,
\* however many parse_cards batches committed them.
C2_BatchesConcatenate ==
    phase = "parsed" =>
        /\ kind = "FORCE" =>
              /\ model.force.load_id = Column(hist, 1)
              /\ model.force.node_id = Column(hist, 2)
              /\ model.force.coord_id = Column(hist, 3)
              /\ model.force.mag = Column(hist, 4)
              /\ model.force.xyz = Column(hist, 5)
        /\ kind = "SPC" =>
              /\ model.spc.spc_id =
                    Flatten([c \in 1..Len(hist) |-> Repeat(hist[c][1], Len(hist[c][2]))])
              /\ model.spc.node_id = Flatten(Column(hist, 2))
              /\ model.spc.components = Flatten(Column(hist, 3))
              /\ model.spc.enforced =
                    Flatten([c \in 1..Len(hist) |-> Repeat(hist[c][4], Len(hist[c][2]))])
        /\ kind = "LOAD" =>
              /\ model.load.load_id = Column(hist, 1)
              /\ model.load.scale = Column(hist, 2)
              /\ model.load.nloads = [c \in 1..Len(hist) |-> Len(hist[c][4])]
              /\ model.load.scale_factors = Flatten(Column(hist, 3))
              /\ model.load.load_ids = Flatten(Column(hist, 4))

\* two FORCE rows committed by two parse_cards batches, one row left
C2_SecondBatchReplaces ==
    /\ kind = "FORCE" /\ phase = "parsed" /\ nparse = 2 /\ Len(hist) = 2
    /\ Len(model.force.load_id) = 1

\* C3: a table holds n = 0 before any card is staged, and after every completed
\* parse_cards n equals the length of the primary id array (DEFORM, MPC, MAT1).
C3_CountMatchesIds ==
    /\ hist = <<>> =>
          model.deform.n = 0 /\ model.mpc.n = 0 /\ model.mat1.n = 0
    /\ phase = "parsed" =>
          /\ kind = "DEFORM" => model.deform.n = Len(model.deform.load_id)
          /\ kind = "MPC" => model.mpc.n = Len(model.mpc.mpc_id)
          /\ kind = "MAT1" => model.mat1.n = Len(model.mat1.material_id)

\* two DEFORM rows committed by two parse_cards batches: n = 2 over one row
C3_CountAheadOfIds ==
    /\ kind = "DEFORM" /\ phase = "parsed" /\ nparse = 2
    /\ model.deform.n = 2 /\ Len(model.deform.load_id) = 1

SameLength(n, arrays) == \A k \in 1..Len(arrays) : Len(arrays[k]) = n

\* C4: after any parse_cards, first or later batch, and in every table produced
\* by a slice, the arrays sharing the row dimension all have length n: sid and
\* nsids of SPCADD, load_id and scale of RFORCE1, load_id, nodes and mags of
\* SLOAD.
C4_RowArraysSameLength ==
    /\ phase = "parsed" =>
          /\ kind = "SPCADD" =>
                SameLength(model.spcadd.n, <<model.spcadd.sid, model.spcadd.nsids>>)
          /\ kind = "RFORCE1" =>
                SameLength(model.rforce1.n, <<model.rforce1.load_id, model.rforce1.scale,
                                              model.rforce1.node_id>>)
          /\ kind = "SLOAD" =>
                SameLength(model.sload.n,
                           <<model.sload.load_id, model.sload.nodes, model.sload.mags>>)
    /\ (phase = "sliced" /\ result.tag = "SLOAD") =>
          SameLength(result.t.n, <<result.t.load_id, result.t.nodes, result.t.mags>>)

\* an SLOAD slice of no rows that still holds a node and a magnitude
C4_SliceKeepsNodes ==
    /\ phase = "sliced" /\ result.tag = "SLOAD"
    /\ result.t.n = 0 /\ result.t.load_id = <<>> /\ Len(result.t.nodes) = 1

\* C5: in every table of the flat-array plus per-row-count pattern (SET1
\* ids/num_ids, SPC1 node_id/nnodes, LOAD load_ids/nloads) the counts sum to the
\* length of the flat array, after every parse_cards and in the table returned
\* by every slice by index.
C5_CountsSumToFlatLength ==
    /\ phase = "parsed" =>
          /\ kind = "SET1" => SumSeq(model.set1.num_ids) = Len(model.set1.ids)
          /\ kind = "SPC1" => SumSeq(model.spc1.nnodes) = Len(model.spc1.node_id)
          /\ kind = "LOAD" => SumSeq(model.load.nloads) = Len(model.load.load_ids)
    /\ phase = "sliced" =>
          /\ result.tag = "SET1" => SumSeq(result.t.num_ids) = Len(result.t.ids)
          /\ result.tag = "SPC1" => SumSeq(result.t.nnodes) = Len(result.t.node_id)
          /\ result.tag = "LOAD" => SumSeq(result.t.nloads) = Len(result.t.load_ids)

\* a SET1 slice of one row of one id whose flat id array is empty
C5_SliceWithoutIds ==
    /\ phase = "sliced" /\ result.tag = "SET1"
    /\ result.t.num_ids = <<1>> /\ result.t.ids = <<>>

\* the rows of a SET1 table: set_id and the id list cut out of ids by the
\* prefix sums of num_ids
SET1_Rows(t) ==
    [k \in 1..Len(t.set_id) |->
        <<t.set_id[k], PySlice(t.ids, SET1_inid(t)[k][1], SET1_inid(t)[k][2])>>]

DistinctIds(a) == Cardinality(Range(a)) = Len(a)

\* C6: for SET1 rows of distinct set ids added in any order, after the sort
\* done by parse_cards the set ids ascend and each row carries the id list that
\* was added with its set id (the table's rows are the added rows, reordered);
\* sorting again changes nothing.
C6_SortKeepsRaggedRows ==
    (phase = "parsed" /\ kind = "SET1" /\ nparse = 1 /\ DistinctIds(Column(hist, 1))) =>
        /\ \A k \in 1..(Len(model.set1.set_id) - 1) :
              model.set1.set_id[k] <= model.set1.set_id[k + 1]
        /\ \E p \in Argsorts(Column(hist, 1)) :
              SET1_Rows(model.set1) = Take(hist, p)
        /\ \A r \in SET1_sort(model.set1) : r.err = "" /\ r.t = model.set1

\* SET1 rows (2, [1]) and (1, [2]) parsed: the set ids are sorted, the flat
\* ids are left in add order
C6_IdsNotReordered ==
    /\ kind = "SET1" /\ phase = "parsed" /\ nparse = 1
    /\ hist = <<<<2, <<1>>>>, <<1, <<2>>>>>>
    /\ model.set1.set_id = <<1, 2>> /\ model.set1.ids = <<1, 2>>

PrimaryIds ==
    CASE kind = "SUPORT" -> model.suport.suport_id
      [] kind = "SPC1" -> model.spc1.spc_id
      [] kind = "FORCE" -> model.force.load_id
      [] OTHER -> <<>>

\* C7: a lookup by id is exact.  When every requested id is carried by some row
\* it returns exactly the rows whose id is requested, all of them also when
\* several rows share an id; when a requested id is carried by no row it raises
\* instead of returning an empty or partial table (SUPORT.index,
\* SPC1.slice_card_by_id, Load.slice_card_by_load_id).
C7_SliceByIdExact ==
    phase = "looked" =>
        LET rows == RowsIn(PrimaryIds, result.ids)
        IN IF Range(result.ids) \subseteq Range(PrimaryIds)
           THEN /\ raised = ""
                /\ result.tag = "SUPORT.index" => result.out = rows
                /\ result.tag = "SPC1.slice_card_by_id" =>
                      result.out = SPC1_slice_card_by_index(model.spc1, rows)
                /\ result.tag = "Load.slice_card_by_load_id" =>
                      result.out = FORCE_slice_card_by_index(model.force, rows)
           ELSE raised # ""

\* a lookup by load id that names an id carried by no row and returns rows
C7_PartialLookup ==
    /\ phase = "looked" /\ result.tag = "Load.slice_card_by_load_id" /\ raised = ""
    /\ ~(Range(result.ids) \subseteq Range(PrimaryIds))
    /\ result.out.n > 0

\* the aggregate cards of the deck, the ids they reference, and those of the
\* referenced ids that no concrete row carries
Aggregates == SelectSeq(hist, LAMBDA c : c[1] \in {"SPCADD", "LOAD"})
Concretes == SelectSeq(hist, LAMBDA c : c[1] \in {"SPC", "SPC1", "FORCE"})
Referenced == UNION {Range(Aggregates[k][3]) : k \in 1..Len(Aggregates)}
Carried == {Concretes[k][2] : k \in 1..Len(Concretes)}
Unresolved == Referenced \ Carried

\* the concrete rows of an SPC or SPC1 table, each tagged with its card name
ConstraintRows(t) ==
    IF "nnodes" \in DOMAIN t
    THEN [k \in 1..Len(t.spc_id) |->
            <<"SPC1", t.spc_id[k], t.components[k],
              PySlice(t.node_id, SPC1_inode(t)[k][1], SPC1_inode(t)[k][2])>>]
    ELSE [k \in 1..Len(t.spc_id) |->
            <<"SPC", t.spc_id[k], t.node_id[k], t.components[k], t.enforced[k]>>]
RowsOfIds(t, ids) == SelectSeq(ConstraintRows(t), LAMBDA r : r[2] \in ids)
\* the rows held by one entry of a reduction: a list, per referenced id, of
\* lists of table slices
EntryRows(entry) ==
    Flatten([j \in 1..Len(entry) |->
               Flatten([q \in 1..Len(entry[j]) |-> ConstraintRows(entry[j][q])])])

\* C8: get_reduced_spcs maps the id of every SPCADD row to exactly the rows of
\* the SPC and SPC1 tables whose spc_id is in the sub-id lists given for that
\* id, each row once.
C8_ReducedSpcsExact ==
    (phase = "reduced" /\ result.tag = "get_reduced_spcs" /\ raised = "") =>
        /\ DOMAIN result.out = {Aggregates[k][2] : k \in 1..Len(Aggregates)}
        /\ \A sid \in DOMAIN result.out :
              LET sub == UNION {Range(Aggregates[k][3]) :
                                   k \in {q \in 1..Len(Aggregates) : Aggregates[q][2] = sid}}
              IN SameBag(EntryRows(result.out[sid]),
                         RowsOfIds(model.spc, sub) \o RowsOfIds(model.spc1, sub))

\* a reduction whose entry for one SPCADD id holds more rows than the SPC and
\* SPC1 tables hold together
C8_RowTwiceInEntry ==
    /\ phase = "reduced" /\ result.tag = "get_reduced_spcs" /\ raised = ""
    /\ \E sid \in DOMAIN result.out :
          Len(EntryRows(result.out[sid])) >
              Len(ConstraintRows(model.spc)) + Len(ConstraintRows(model.spc1))

\* C9: with stop_on_failure = True a reduction over a deck whose aggregate rows
\* reference an id carried by no concrete row raises an error naming such an id.
C9_UnresolvedRaises ==
    (phase = "reduced" /\ result.stop_on_failure /\ Unresolved # {}) =>
        /\ raised # ""
        /\ result.named # {}
        /\ result.named \subseteq Unresolved

\* get_reduced_loads with stop_on_failure = True over a LOAD row referencing
\* an id no FORCE row carries, returned without raising
C9_LoadsReturnQuietly ==
    /\ phase = "reduced" /\ result.tag = "get_reduced_loads" /\ result.stop_on_failure
    /\ Unresolved # {} /\ raised = ""

\* C10: with stop_on_failure = False an id that resolves to nothing does not
\* raise: it is logged and the reduction returns the entries of the aggregate
\* rows that reference something resolvable.
C10_ContinueOnFailure ==
    (phase = "reduced" /\ ~result.stop_on_failure /\ Unresolved # {}) =>
        /\ raised = ""
        /\ \A u \in Unresolved : \E l \in result.log : l[2] = u
        /\ \A k \in 1..Len(Aggregates) :
              (Range(Aggregates[k][3]) \cap Carried # {}) =>
                  Aggregates[k][2] \in DOMAIN result.out

\* get_reduced_spcs with stop_on_failure = False over an SPCADD row
\* referencing an id no SPC or SPC1 row carries, ended by a KeyError
C10_SpcsRaiseAnyway ==
    /\ phase = "reduced" /\ result.tag = "get_reduced_spcs" /\ ~result.stop_on_failure
    /\ Unresolved # {} /\ raised = "KeyError"

\* the LOAD rows of the deck as added: <<"LOAD", sid, load_ids, scale,
\* scale_factors>>; their ids, and per row the members that resolve in the
\* concrete-id map, each with the scale the row gives it
LoadSids == [k \in 1..Len(Aggregates) |-> Aggregates[k][2]]
MemberPairs(c) == [j \in 1..Len(c[3]) |-> <<c[4] * c[5][j], c[3][j]>>]
Resolved(c) == SelectSeq(MemberPairs(c), LAMBDA pr : pr[2] \in Carried)
ExpectedEntry(c) ==
    [j \in 1..Len(Resolved(c)) |->
        <<Resolved(c)[j][1], get_loads_by_load_id(model)[Resolved(c)[j][2]]>>]
ReducedLoadsDone ==
    phase = "reduced" /\ result.tag = "get_reduced_loads" /\ raised = ""

\* C11: for every LOAD row (sid, S, [(S_i, L_i)]) of a table of rows of distinct
\* ids, reduced without the zero filter, the entry of sid holds, for each L_i
\* that resolves in the concrete-id map and in member order, the pair
\* (S * S_i, rows of L_i), S being that row's own scale.
C11_ScaledByRowScale ==
    (ReducedLoadsDone /\ ~result.filter_zero_scale_factors /\ DistinctIds(LoadSids)) =>
        \A k \in 1..Len(Aggregates) :
            Resolved(Aggregates[k]) # <<>> =>
                /\ Aggregates[k][2] \in DOMAIN result.out
                /\ result.out[Aggregates[k][2]] = ExpectedEntry(Aggregates[k])

\* LOAD (100, 2.0, [(1.0, 1)]) over a FORCE row of id 1, reduced to scale 1
C11_ScaleOfFirstMember ==
    /\ ReducedLoadsDone /\ ~result.filter_zero_scale_factors
    /\ Aggregates = <<<<"LOAD", 100, <<1>>, 2, <<1>>>>>>
    /\ 1 \in Carried
    /\ result.out[100][1][1] = 1

\* C12: every id of the concrete-load map that no LOAD row references is in
\* the result of get_reduced_loads under its own id with scale factor 1, for
\* any LOAD table, one of zero rows included.
C12_UnreferencedKept ==
    ReducedLoadsDone =>
        \A id \in Carried \ Referenced :
            /\ id \in DOMAIN result.out
            /\ result.out[id] = <<<<1, get_loads_by_load_id(model)[id]>>>>

\* a FORCE row and no LOAD row, reduced to the empty dictionary
C12_NoRowsNothingKept ==
    /\ ReducedLoadsDone
    /\ Aggregates = <<>> /\ Carried # {}
    /\ result.out = <<>>

\* the (row, member id) pairs where a LOAD row names the id of another LOAD row
\* and no concrete row carries that id
NestedRefs ==
    {<<k, j>> \in (1..Len(Aggregates)) \X (1..2) :
        /\ j <= Len(Aggregates[k][3])
        /\ Aggregates[k][3][j] \notin Carried
        /\ \E q \in 1..Len(Aggregates) : q # k /\ Aggregates[q][2] = Aggregates[k][3][j]}

\* C13: when a LOAD row references the id of another LOAD row, whichever comes
\* first, get_reduced_loads logs the nested-reference diagnostic for that id
\* and does not recurse: the referencing row's entry holds no more than its own
\* resolved members.
C13_NestedDiagnosed ==
    (ReducedLoadsDone /\ ~result.filter_zero_scale_factors /\ DistinctIds(LoadSids)) =>
        \A nr \in NestedRefs :
            LET c == Aggregates[nr[1]]
            IN /\ <<"warning", c[3][nr[2]], "references another LOAD">> \in result.log
               /\ c[2] \in DOMAIN result.out => Len(result.out[c[2]]) <= Len(Resolved(c))

\* row 100 references row 200, which comes after it: logged as an id that
\* cannot be found
C13_LaterRowNotFound ==
    /\ ReducedLoadsDone
    /\ Len(Aggregates) = 2 /\ Aggregates[1][2] = 100 /\ Aggregates[2][2] = 200
    /\ Aggregates[1][3] = <<200>>
    /\ <<"warning", 200, "cannot find load_id">> \in result.log
    /\ <<"warning", 200, "references another LOAD">> \notin result.log

\* the scale factors recorded in a reduction's result
RecordedScales ==
    UNION {{result.out[x][j][1] : j \in 1..Len(result.out[x])} : x \in DOMAIN result.out}

\* C15: without the zero filter every resolved member of a LOAD row is kept in
\* the row's entry, a zero scale factor included; with
\* filter_zero_scale_factors = True no entry of the result carries a scale
\* factor of zero, through LOAD.get_reduced_loads and through
\* LOAD.get_reduced_load_by_load_id alike.
C15_ZeroKeptUnlessFiltered ==
    (phase = "reduced" /\ raised = "") =>
        /\ (~result.filter_zero_scale_factors /\ DistinctIds(LoadSids)
                /\ result.tag = "get_reduced_loads") =>
              \A k \in 1..Len(Aggregates) :
                  Resolved(Aggregates[k]) # <<>> =>
                      /\ Aggregates[k][2] \in DOMAIN result.out
                      /\ Len(result.out[Aggregates[k][2]]) = Len(Resolved(Aggregates[k]))
        /\ result.filter_zero_scale_factors => 0 \notin RecordedScales

\* get_reduced_load_by_load_id(100, filter_zero_scale_factors=True) returning
\* an entry of scale factor zero
C15_FilterNotPassedOn ==
    /\ phase = "reduced" /\ raised = ""
    /\ result.tag = "get_reduced_load_by_load_id" /\ result.load_id = 100
    /\ result.filter_zero_scale_factors
    /\ 100 \in DOMAIN result.out
    /\ result.out[100][1][1] = 0

\* C14: an aggregate row with no member is rejected no later than parse_cards,
\* staged by add or by add_card alike: after a completed parse_cards every
\* committed SPCADD row and every committed LOAD row has a member count of at
\* least 1.
C14_NoEmptyAggregate ==
    (phase = "parsed" /\ raised = "") =>
        /\ kind = "SPCADD" =>
              \A k \in 1..Len(model.spcadd.nsids) : model.spcadd.nsids[k] >= 1
        /\ kind = "LOAD" =>
              \A k \in 1..Len(model.load.nloads) : model.load.nloads[k] >= 1

\* LOAD.add(100, 1.0, [], []) committed by parse_cards with a member count of 0
C14_EmptyLoadCommitted ==
    /\ kind = "LOAD" /\ phase = "parsed" /\ raised = ""
    /\ hist = <<<<"add", 100, <<>>>>>>
    /\ model.load.load_id = <<100>> /\ model.load.nloads = <<0>>

\* the ids of the table written, over every id column, and the fields of the
\* cards written
WrittenIds ==
    CASE kind = "SET1" -> Range(model.set1.set_id) \cup Range(model.set1.ids)
      [] kind = "SPC1" -> Range(model.spc1.spc_id) \cup Range(model.spc1.node_id)
      [] kind = "MPCADD" -> Range(model.mpcadd.sid) \cup Range(model.mpcadd.sids)
      [] OTHER -> {}
WrittenFields ==
    UNION {{result.lines[k][j] : j \in 1..Len(result.lines[k])} : k \in 1..Len(result.lines)}

\* C16: a SET1, SPC1 or MPCADD table holding the id 100,000,000 in any id
\* column is written by write_file(size=8) without error, in 16-character
\* fields, and the card carrying that id is among the cards written.
C16_WidthPromoted ==
    (phase = "written" /\ kind \in WriteKinds /\ result.size = 8 /\ LargeId \in WrittenIds) =>
        /\ raised = ""
        /\ \A f \in WrittenFields : f.width = 16
        /\ \E f \in WrittenFields : f.field = IntField(LargeId)

\* SET1 (1, [100000000]) written with size=8: print_card_8 raises on the member
C16_MemberIdOverflows ==
    /\ phase = "written" /\ kind = "SET1" /\ result.size = 8
    /\ model.set1.set_id = <<1>> /\ model.set1.ids = <<LargeId>>
    /\ raised = "RuntimeError"

\* a MAT1 row whose optional fields all hold their defaults
AllDefault(t, k) ==
    /\ t.rho[k] = 0 /\ t.alpha[k] = 0 /\ t.tref[k] = 0 /\ t.ge[k] = 0
    /\ t.St[k] = 0 /\ t.Sc[k] = 0 /\ t.Ss[k] = 0 /\ t.mcsid[k] = 0
FieldsOf(line) == [j \in 1..Len(line) |-> line[j].field]

\* C17: when MAT1.write_file returns, every row whose optional fields all hold
\* their defaults is written as exactly the five fields MAT1, mid, E, G, nu
\* (G blank when it holds its own default) with nothing after nu, and a row
\* with an optional field set is written with that field.
C17_DefaultsElided ==
    (phase = "written" /\ kind = "MAT1" /\ raised = "") =>
        /\ Len(result.lines) = Len(model.mat1.material_id)
        /\ \A k \in 1..Len(result.lines) :
              LET t == model.mat1
                  fields == FieldsOf(result.lines[k])
              IN IF AllDefault(t, k)
                 THEN /\ Len(fields) = 5
                      /\ fields[1] = StrField("MAT1")
                      /\ fields[2] = IntField(t.material_id[k])
                      /\ fields[3] = RealField(t.E[k])
                      /\ fields[4] \in {RealField(t.G[k]), Blank}
                      /\ fields[5] = RealField(t.nu[k])
                 ELSE /\ Len(fields) > 5
                      /\ fields[Len(fields)] \in {RealField(1), IntField(1)}

\* a table with a default row and a row with ge set has been written
C17_DefaultRowWritten ==
    /\ phase = "written" /\ kind = "MAT1" /\ raised = ""
    /\ Len(result.lines) = 2
    /\ AllDefault(model.mat1, 1) /\ ~AllDefault(model.mat1, 2)
    /\ model.mat1.G[1] = 1 /\ model.mat1.nu[1] = 1

\* the cards written for suport_id, in the order written, and the (node,
\* component) fields a card carries behind its tag and id
GroupLines(suport_id) ==
    LET head == IF suport_id = 0 THEN <<StrField("SUPORT")>>
                ELSE <<StrField("SUPORT1"), IntField(suport_id)>>
        at == {k \in 1..Len(result.lines) :
                 /\ Len(result.lines[k]) >= Len(head)
                 /\ SubSeq(FieldsOf(result.lines[k]), 1, Len(head)) = head}
    IN Take(result.lines, SetToSortedSeq(at))
PairFields(suport_id, line) ==
    LET nhead == IF suport_id = 0 THEN 1 ELSE 2
    IN SubSeq(FieldsOf(line), nhead + 1, Len(line))

\* C18: for each suport_id of the table, the cards SUPORT.write_file writes
\* for it carry its (node, component) pairs exactly once and in row order,
\* each card with at least one pair and at most 4 (SUPORT) or 3 (SUPORT1).
C18_PairsOnceInOrder ==
    (phase = "written" /\ kind = "SUPORT" /\ raised = "") =>
        \A suport_id \in Range(model.suport.suport_id) :
            LET cards == GroupLines(suport_id)
                per == IF suport_id = 0 THEN 4 ELSE 3
            IN /\ Flatten([c \in 1..Len(cards) |-> PairFields(suport_id, cards[c])])
                     = Flatten(SUPORT_pairs(model.suport, suport_id))
               /\ \A c \in 1..Len(cards) :
                     /\ Len(PairFields(suport_id, cards[c])) >= 2
                     /\ Len(PairFields(suport_id, cards[c])) <= 2 * per

\* a SUPORT1 group of three pairs is closed by a card with no pair
C18_EmptySuport1Card ==
    /\ phase = "written" /\ kind = "SUPORT" /\ raised = ""
    /\ model.suport.suport_id = <<1, 1, 1>>
    /\ Len(result.lines) = 2
    /\ FieldsOf(result.lines[2]) = <<StrField("SUPORT1"), IntField(1)>>

\* the group key of each row of the grouped table written, and of each card
\* written for it
RowKeys ==
    CASE kind = "SUPORT" -> model.suport.suport_id
      [] kind = "ASET" -> model.aset.component
      [] kind = "USET" -> model.uset.name
      [] OTHER -> <<>>
CardKey(line) ==
    IF line[1].field = StrField("SUPORT") THEN 0 ELSE line[2].field[2]
CardKeys == [k \in 1..Len(result.lines) |-> CardKey(result.lines[k])]
First(a, key) == CHOOSE k \in 1..Len(a) : a[k] = key /\ \A j \in 1..(k - 1) : a[j] # key

C20_NRaisedByRows ==
    kind \in AddCardKinds =>
        \A k \in 1..Len(hist) :
            /\ hist[k].rows = hist[k].groups
            /\ hist[k].after - hist[k].before = hist[k].rows

\* a PLOTEL line of one element has raised n by two, and an SPC line of two
\* groups by one
C20_PlotelRaisedTwice ==
    /\ kind = "PLOTEL" /\ Len(hist) = 1
    /\ hist[1].rows = 1 /\ hist[1].before = 0 /\ hist[1].after = 2

\* C21: parse_cards never fails on the content of a card add_card accepted:
\* whenever every add_card returned normally, the following parse_cards
\* raises neither on a string among the ids nor on a THRU range.
C21_NeverDeferred ==
    (kind \in FailFastKinds /\ result.tag = "call" /\ result.op = "parse_cards") =>
        raised \notin {"ValueError", "IndexError"}

\* SET1 1 with the id field ABC was accepted by add_card and parse_cards
\* raised on it
C21_StringIdDeferred ==
    /\ kind = "SET1" /\ result.tag = "call" /\ result.op = "parse_cards"
    /\ hist = <<<<StrField("SET1"), IntField(1), StrField("ABC")>>>>
    /\ raised = "ValueError"
    /\ Len(model.set1.cards) = 1

\* the table convert acted on, and a column multiplied entry by entry
ConvertedTable == IF kind = "CONM2" THEN model.conm2 ELSE model.mat1
Times(a, factor) == [k \in DOMAIN a |-> a[k] * factor]
RowsTimes(a, factor) == [k \in DOMAIN a |-> Times(a[k], factor)]

\* C22: convert leaves every column of the table as it was, except that for
\* CONM2 xyz_offset is multiplied by xyz_scale, mass by mass_scale and inertia
\* by mass_inertia_scale, and for MAT1 E and G by stiffness_scale, rho by
\* density_scale, alpha by alpha_scale and Ss, St, Sc by stress_scale; the
\* call does not raise on the factors the table does not read.
C22_ConvertScalesByName ==
    (phase = "converted" /\ kind \in ConvertKinds) =>
        LET t == ConvertedTable
            b == result.before
            f == result.scales
        IN /\ raised = ""
           /\ DOMAIN t = DOMAIN b
           /\ IF kind = "CONM2"
              THEN /\ t.xyz_offset = RowsTimes(b.xyz_offset, f.xyz_scale)
                   /\ t.mass = Times(b.mass, f.mass_scale)
                   /\ t.inertia = RowsTimes(b.inertia, f.mass_inertia_scale)
                   /\ \A c \in {"n", "cards", "element_id", "node_id", "coord_id"} : t[c] = b[c]
              ELSE /\ t.E = Times(b.E, f.stiffness_scale)
                   /\ t.G = Times(b.G, f.stiffness_scale)
                   /\ t.rho = Times(b.rho, f.density_scale)
                   /\ t.alpha = Times(b.alpha, f.alpha_scale)
                   /\ \A c \in {"Ss", "St", "Sc"} : t[c] = Times(b[c], f.stress_scale)
                   /\ \A c \in {"n", "cards", "material_id", "nu", "tref", "ge", "mcsid"} :
                         t[c] = b[c]

\* a parsed MAT1 table of two rows has been converted with the dictionary of
\* different factors
C22_TwoRowsConverted ==
    /\ phase = "converted" /\ kind = "MAT1" /\ raised = ""
    /\ result.scales = DistinctScales
    /\ Len(result.before.E) = 2
    /\ model.mat1.rho = <<7, 7>>

\* the ids a checked table refers to, by role
ReferencedIds(role) ==
    IF kind = "CONM2"
    THEN (IF role = "node" THEN Range(model.conm2.node_id)
          ELSE Range(model.conm2.coord_id) \ {-1})
    ELSE Range(model.deform.elements)

\* C23: geom_check does not raise, whatever the targets hold (empty targets
\* included), and every id the table refers to that its target lacks is in
\* the report afterwards.
C23_EveryDanglingIdReported ==
    (phase = "checked" /\ kind \in GeomCheckKinds) =>
        /\ raised = ""
        /\ \A role \in DOMAIN result.targets :
              (ReferencedIds(role) \ Range(result.targets[role])) \subseteq result.missing[role]

\* a CONM2 table whose rows name no coordinate system -1 was checked against
\* a grid that lacks one of its nodes, and the report stayed empty
C23_DanglingNodeUnreported ==
    /\ phase = "checked" /\ kind = "CONM2" /\ raised = ""
    /\ -1 \notin Range(model.conm2.coord_id)
    /\ Range(model.conm2.node_id) \ Range(result.targets.node) # {}
    /\ result.missing = NoMissing

\* the table a write acted on
WrittenTable == IF kind = "SET1" THEN model.set1 ELSE model.uset

NoAppendTable ==
    CASE kind = "FORCE1" -> model.force1 [] kind = "FORCE2" -> model.force2
      [] OTHER -> model.conm2
NoAppendArrays ==
    IF kind = "CONM2"
    THEN {"element_id", "mass", "coord_id", "node_id", "xyz_offset", "inertia"}
    ELSE {"load_id", "node_id", "mag", "nodes"}
NoAppendIdColumn == IF kind = "CONM2" THEN "element_id" ELSE "load_id"

\* C25: parse_cards on a FORCE1, FORCE2 or CONM2 table that holds committed
\* rows and newly staged ones raises, and every committed array is afterwards
\* what it was before the call.
C25_SecondBatchRefused ==
    (/\ kind \in NoAppendKinds /\ phase \in {"parsed", "failed"} /\ result.tag = "parse"
     /\ Len(result.before[NoAppendIdColumn]) > 0
     /\ Len(result.before.cards) > 0)
    => /\ raised \in {"NotImplementedError", "RuntimeError"}
       /\ \A c \in NoAppendArrays : NoAppendTable[c] = result.before[c]

\* a FORCE2 table with one committed row and one newly staged row was parsed
C25_Force2SecondBatchParsed ==
    /\ kind = "FORCE2" /\ phase \in {"parsed", "failed"} /\ result.tag = "parse"
    /\ Len(result.before.load_id) = 1
    /\ Len(result.before.cards) = 1
    /\ Len(model.force2.load_id) = 1

\* the order of the sections as the specification gives it, the position of a
\* section in it, and the lines of the file
SectionOrder ==
    <<"params", "nodes", "elements", "properties", "materials", "masses",
      "rigid_elements", "nonstructural_mass", "dmigs", "loads", "dynamic", "constraints",
      "optimization", "sets", "rejects", "coords", "ENDDATA">>
SectionRank(section) == CHOOSE k \in 1..Len(SectionOrder) : SectionOrder[k] = section
FileLines == IF result.tag = "bdf_file" THEN result.lines ELSE <<>>

\* C26: the lines of the file follow the order params, nodes, elements,
\* properties, materials, masses, rigid elements, nonstructural mass, dmigs,
\* loads, dynamic, constraints, optimization, sets, rejects, coords; when the
\* call has returned, ENDDATA stands in the file (then as its last line)
\* exactly when enddata is True, or is None and the deck had an ENDDATA card,
\* and the file is closed exactly when close is True; no write is refused
\* because the file was closed too early.
C26_SectionsInOrderThenEnddataThenClose ==
    kind = "bulk_data" =>
        /\ raised = ""
        /\ \A i, j \in 1..Len(FileLines) :
              i < j => SectionRank(FileLines[i].section) <= SectionRank(FileLines[j].section)
        /\ (result.tag = "bdf_file" /\ phase # "done") => ~result.closed
        /\ phase = "done" =>
              /\ (\E i \in 1..Len(FileLines) : FileLines[i].section = "ENDDATA")
                 <=> (result.enddata = "True"
                      \/ (result.enddata = "None" /\ model.has_enddata_card))
              /\ \A i \in 1..Len(FileLines) :
                    FileLines[i].section = "ENDDATA" => i = Len(FileLines)
              /\ result.closed <=> result.close

\* a deck with loads, nodes and an ENDDATA card was written with enddata left
\* as None and close True, and the call has returned
C26_DeckWrittenAndClosed ==
    /\ kind = "bulk_data" /\ phase = "done"
    /\ model.populated = {"loads", "nodes"} /\ model.has_enddata_card
    /\ result.enddata = "None" /\ result.close
    /\ Len(result.lines) = 3
    /\ result.closed

\* C27: in the file of one write_bulk_data call no table's rows stand twice.
C27_NoTableWrittenTwice ==
    kind = "bulk_data" =>
        \A i, j \in 1..Len(FileLines) : FileLines[i].table = FileLines[j].table => i = j

\* a model whose only rows are in pshln1 was written, and the file holds the
\* table twice
C27_Pshln1WrittenTwice ==
    /\ kind = "bulk_data" /\ phase = "done"
    /\ model.populated = {"pshln1"}
    /\ Len(result.lines) = 2
    /\ result.lines[1].table = "pshln1" /\ result.lines[2].table = "pshln1"

\* the call made, the LOAD row's own reduction, and the FORCE rows of an id
StaticLoadCalled == phase = "reduced" /\ result.tag = "get_reduced_static_load_from_load_id"
ReducedById == LOAD_get_reduced_load_by_load_id(model, result.load_id, FALSE, FALSE, TRUE)
ForceRowsOf(load_id) == RowsIn(model.force.load_id, <<load_id>>)

\* C28: for the id of a LOAD row whose members resolve to loads,
\* get_reduced_static_load_from_load_id returns the row's reduced entries,
\* which are not an empty list.
C28_LoadRowReduced ==
    (/\ StaticLoadCalled
     /\ model.load.n # 0 /\ result.load_id \in Range(model.load.load_id)
     /\ ReducedById.err = ""
     /\ result.load_id \in DOMAIN ReducedById.out
     /\ ReducedById.out[result.load_id] # <<>>)
    => /\ raised = ""
       /\ result.out = ReducedById.out[result.load_id]

\* the call was made for a LOAD row that reduces to one FORCE entry, and an
\* empty list came back
C28_EmptyListForLoadRow ==
    /\ StaticLoadCalled /\ raised = ""
    /\ model.load.n # 0 /\ result.load_id \in Range(model.load.load_id)
    /\ ReducedById.err = ""
    /\ result.load_id \in DOMAIN ReducedById.out
    /\ Len(ReducedById.out[result.load_id]) = 1
    /\ result.out = <<>>

\* C29: for an id that is no LOAD row's, the call returns one (1.0, rows)
\* entry for the FORCE table when the table holds the id, with exactly the
\* table's rows of that id, and an empty list without an error when the
\* table is empty or does not hold the id.
C29_OneEntryPerTableHoldingId ==
    (StaticLoadCalled /\ result.load_id \notin Range(model.load.load_id))
    => /\ raised = ""
       /\ IF ForceRowsOf(result.load_id) = <<>> THEN result.out = <<>>
          ELSE /\ Len(result.out) = 1
               /\ result.out[1][1] = 1
               /\ result.out[1][2] = FORCE_slice_card_by_index(model.force,
                                                               ForceRowsOf(result.load_id))

\* the call was made for an id that FORCE rows exist for, but none with this
\* id, and it raised
C29_OtherIdRaises ==
    /\ StaticLoadCalled /\ raised = "AssertionError"
    /\ result.load_id \notin Range(model.load.load_id)
    /\ model.force.n > 0
    /\ ForceRowsOf(result.load_id) = <<>>

\* the nodes and components staged so far, in the order of the calls
StagedNodes == Flatten([k \in 1..Len(hist) |-> hist[k][2]])
StagedComponents == Flatten([k \in 1..Len(hist) |-> hist[k][3]])

\* C30: parse_cards commits the rows staged on SPCOFF, those of add_set and
\* add_set1 like those of add_set_card and add_set1_card: it does not raise,
\* node_id and component hold the staged values in the order staged, and n is
\* the number of nodes staged.
C30_StagedRowsCommitted ==
    (kind = "SPCOFF" /\ phase \in {"parsed", "failed"}) =>
        /\ raised = ""
        /\ model.node_id = StagedNodes
        /\ model.component = StagedComponents
        /\ model.n = Len(StagedNodes)

\* rows staged with add_set only were parsed, and parse_cards raised
C30_AddSetRowsNotParsed ==
    /\ kind = "SPCOFF" /\ phase = "failed" /\ raised = "ValueError"
    /\ Len(hist) = 1 /\ hist[1][1] = "add_set"
    /\ model.node_id = <<>>

====
